---- MODULE Spec2Model ----
(***************************************************************************)
(* A model of the flecs WebGPU rendering module: the per-frame render      *)
(* system (src/src/main.c), the batch gatherer and executor                *)
(* (src/src/rendering/render_system.c), the per-shape geometry cache       *)
(* (src/src/geometry/geometry.c) and the GPU resource factory              *)
(* (src/src/resources/resource_manager.c).                                 *)
(*                                                                         *)
(* The ECS (flecs) and the GPU API are the environment.  A query iterates  *)
(* the matched tables one chunk at a time; a system callback is invoked    *)
(* once per matched table with it->count entities.  GPU handles are        *)
(* opaque: NULL or a live handle.  Floats are written in tenths (1.0f is   *)
(* 10).  main.c uses EM_ASM and emscripten_cancel_main_loop outside any    *)
(* #ifdef, so the build modelled is the Emscripten one.                    *)
(***************************************************************************)
EXTENDS Integers, Sequences, FiniteSets, TLC

\* ------------------------------------------------------------------ bounds
MaxEntities == 2
MaxFrames == 2
MaxExtraRenderers == 1
MaxCanvases == 2

\* ------------------------------------------------------------- GPU handles
NULL == 0
HANDLE == 1

IsNull(h) == h = NULL

\* ---------------------------------------------------------------- the world
Entities == 1..MaxEntities

Box == "EcsBox"
Rectangle == "EcsRectangle"

\* The tables (archetypes) of the world, in the order a query visits them.
\* color is how the EcsRgb term is bound for the entities of the table:
\* "none" (the optional term is not set), "own" (a per-entity column) or
\* "shared" (one value inherited from a base entity).  The colour of an entity
\* that no shape query matches is never read.
TableSeq ==
    << [transform |-> TRUE,  shapes |-> {Box},            color |-> "own"],
       [transform |-> TRUE,  shapes |-> {Box},            color |-> "none"],
       [transform |-> TRUE,  shapes |-> {Box},            color |-> "shared"],
       [transform |-> TRUE,  shapes |-> {Rectangle},      color |-> "own"],
       [transform |-> TRUE,  shapes |-> {Rectangle},      color |-> "none"],
       [transform |-> TRUE,  shapes |-> {Box, Rectangle}, color |-> "own"],
       [transform |-> FALSE, shapes |-> {Box},            color |-> "own"],
       [transform |-> TRUE,  shapes |-> {},               color |-> "own"] >>

Archetypes == {TableSeq[k] : k \in 1..Len(TableSeq)}

Worlds == [Entities -> Archetypes]

\* Component values.  EcsRgb values are (r, g, b) in tenths.
Rgb(r, g, b) == [r |-> r, g |-> g, b |-> b]
White == Rgb(10, 10, 10)
ColorSeq == << Rgb(2, 5, 10), White, Rgb(0, 5, 8) >>
SharedColor == Rgb(7, 7, 0)
Colors == {ColorSeq[k] : k \in 1..Len(ColorSeq)} \cup {SharedColor}

OwnColor(e) == ColorSeq[((e - 1) % Len(ColorSeq)) + 1]

\* EcsTransform3.value of entity e: the identity translated along X by e.
Identity4 == << 10, 0, 0, 0,   0, 10, 0, 0,   0, 0, 10, 0,   0, 0, 0, 10 >>
TransformOf(e) == [Identity4 EXCEPT ![13] = 10 * e]

\* ------------------------------------------------------- geometry catalog
box_vertex_count == 24
box_index_count == 36
rectangle_vertex_count == 4

\* A variant of rectangle_index_count: the index count of the box.
rectangle_index_count_of_box == box_index_count

rectangle_index_count == 6

\* box_indices: two triangles for each of the six faces.
box_indices ==
    << 0, 1, 2, 0, 2, 3,        4, 5, 6, 4, 6, 7,
       8, 9, 10, 8, 10, 11,     12, 13, 14, 12, 14, 15,
       16, 17, 18, 16, 18, 19,  20, 21, 22, 20, 22, 23 >>

\* A variant of rectangle_indices that counts the corners from one.
rectangle_indices_from_one == << 1, 2, 3, 1, 3, 4 >>

\* rectangle_indices: the two triangles of the quad.
rectangle_indices == << 0, 1, 2, 0, 2, 3 >>

\* The index array get_geometry_buffers uploads for a shape.
IndexArray(geometry_type) ==
    IF geometry_type = "EcsBox" THEN box_indices ELSE rectangle_indices

\* --------------------------------------------------------- query iteration
EntitySeq == [e \in Entities |-> e]

\* The entities of table k, in storage order.
TableRows(w, k) == SelectSeq(EntitySeq, LAMBDA e : w[e] = TableSeq[k])

\* A variant of TermsMatch without the EcsTransform3 term.
TermsMatchShapeOnly(a, geometry_type) == geometry_type \in a.shapes

\* Terms { EcsTransform3, EcsRgb optional, geometry_type }.
TermsMatch(a, geometry_type) == a.transform /\ geometry_type \in a.shapes

\* ecs_query_iter / ecs_query_next: the non-empty matched tables, each one a
\* chunk (the sequence of its entities).  ecs_query over three registered
\* component ids always yields a query.
QueryChunks(w, geometry_type) ==
    LET all == [k \in 1..Len(TableSeq) |-> TableRows(w, k)]
        Matched(c) == Len(c) > 0 /\ TermsMatch(w[c[1]], geometry_type)
    IN SelectSeq(all, Matched)

\* ecs_field(&it, EcsRgb, 1): NULL when the optional term is not set, the
\* table column when the entities own the component, and a pointer to the one
\* inherited value when the term is shared.
ColorField(w, chunk) ==
    LET kind == w[chunk[1]].color
    IN IF kind = "none" THEN <<>>
       ELSE IF kind = "own" THEN [j \in 1..Len(chunk) |-> OwnColor(chunk[j])]
       ELSE << SharedColor >>

FieldIsNull(w, chunk) == w[chunk[1]].color = "none"
ecs_field_is_self(w, chunk) == w[chunk[1]].color = "own"

\* The entities whose colour gather reads past the end of a shared field.
OobEntities(w) ==
    {e \in Entities :
        /\ w[e].color = "shared"
        /\ w[e].transform /\ w[e].shapes # {}
        /\ \E d \in Entities : d < e /\ w[d] = w[e]}


\* ------------------------------------------------ GPU resource factory
\* A fault names a GPU creation call of the current handler that returns NULL:
\* <<geometry_type, "vertex" | "index" | "instance">> for the three buffers of
\* a batch, <<"shader", "vertex" | "fragment">> and <<"pipeline", "default">>.
\* A handler is modelled with at most one failing creation call.
FaultSets(sites) == {{}} \cup {{site} : site \in sites}

BufferKinds == {"vertex", "index", "instance"}

\* webgpu_create_buffer: NULL without a device call when device is NULL or
\* size is 0; otherwise what wgpuDeviceCreateBuffer and the mapping yield.
webgpu_create_buffer(device, size, ok) ==
    IF IsNull(device) \/ size = 0 THEN NULL
    ELSE IF ok THEN HANDLE ELSE NULL

CreateBufferCalls(device, size, what) ==
    IF IsNull(device) \/ size = 0 THEN <<>>
    ELSE << <<"DeviceCreateBuffer", what, size>> >>

webgpu_create_shader_module(device, ok) ==
    IF IsNull(device) THEN NULL ELSE IF ok THEN HANDLE ELSE NULL

webgpu_create_geometry_pipeline(device, vertex_shader, fragment_shader, ok) ==
    IF IsNull(device) \/ IsNull(vertex_shader) \/ IsNull(fragment_shader)
    THEN NULL
    ELSE IF ok THEN HANDLE ELSE NULL

\* ------------------------------------------------------ instance records
FloatsPerInstance == 19
BytesPerFloat == 4
WEBGPU_BYTES_PER_INSTANCE == FloatsPerInstance * BytesPerFloat
FloatsPerVertex == 8
BytesPerIndex == 2

\* A variant of PackInstances that writes the colour before the transform.
PackColorFirst(transforms, colors, count) ==
    [k \in 1..(count * FloatsPerInstance) |->
        LET i == ((k - 1) \div FloatsPerInstance) + 1
            f == (k - 1) % FloatsPerInstance
        IN IF f = 0 THEN colors[i].r
           ELSE IF f = 1 THEN colors[i].g
           ELSE IF f = 2 THEN colors[i].b
           ELSE transforms[i][f - 2]]

\* The float array create_instance_buffer packs: record i at floats
\* 19*i .. 19*i+18, the 16 floats of transform i and then r, g, b.
PackInstances(transforms, colors, count) ==
    [k \in 1..(count * FloatsPerInstance) |->
        LET i == ((k - 1) \div FloatsPerInstance) + 1
            f == (k - 1) % FloatsPerInstance
        IN IF f < 16 THEN transforms[i][f + 1]
           ELSE IF f = 16 THEN colors[i].r
           ELSE IF f = 17 THEN colors[i].g
           ELSE colors[i].b]

\* The instance vertex-buffer layout of the pipeline: arrayStride 19 floats,
\* four Float32x4 attributes at float offsets 0, 4, 8, 12 (the transform) and
\* one Float32x3 attribute at float offset 16 (the colour).
InstanceStrideFloats == 19
TransformAttributeOffsets == << 0, 4, 8, 12 >>
ColorAttributeOffset == 16

\* What the pipeline reads for instance i (1-based) of an instance buffer.
ReadInstance(data, i) ==
    LET base == InstanceStrideFloats * (i - 1)
    IN [transform |->
            [k \in 1..16 |->
                data[base + TransformAttributeOffsets[((k - 1) \div 4) + 1]
                          + ((k - 1) % 4) + 1]],
        color |-> Rgb(data[base + ColorAttributeOffset + 1],
                      data[base + ColorAttributeOffset + 2],
                      data[base + ColorAttributeOffset + 3])]

\* create_instance_buffer: the handle, and the bytes uploaded into it.
create_instance_buffer(device, transforms, colors, count, ok) ==
    IF IsNull(device) \/ count = 0
    THEN [buffer |-> NULL, data |-> <<>>]
    ELSE LET buffer == webgpu_create_buffer(device, count * WEBGPU_BYTES_PER_INSTANCE, ok)
         IN [buffer |-> buffer,
             data |-> IF IsNull(buffer) THEN <<>>
                      ELSE PackInstances(transforms, colors, count)]

\* get_geometry_buffers: creates the vertex and the index buffer of the shape
\* and reports the catalog counts; FALSE for an unsupported type.
get_geometry_buffers(device, geometry_type, faults) ==
    IF geometry_type = Box
    THEN [ok |-> TRUE,
          vertex_buffer |-> webgpu_create_buffer(device,
              box_vertex_count * FloatsPerVertex * BytesPerFloat,
              <<geometry_type, "vertex">> \notin faults),
          index_buffer |-> webgpu_create_buffer(device,
              box_index_count * BytesPerIndex,
              <<geometry_type, "index">> \notin faults),
          vertex_count |-> box_vertex_count,
          index_count |-> box_index_count]
    ELSE IF geometry_type = Rectangle
    THEN [ok |-> TRUE,
          vertex_buffer |-> webgpu_create_buffer(device,
              rectangle_vertex_count * FloatsPerVertex * BytesPerFloat,
              <<geometry_type, "vertex">> \notin faults),
          index_buffer |-> webgpu_create_buffer(device,
              rectangle_index_count * BytesPerIndex,
              <<geometry_type, "index">> \notin faults),
          vertex_count |-> rectangle_vertex_count,
          index_count |-> rectangle_index_count]
    ELSE [ok |-> FALSE, vertex_buffer |-> NULL, index_buffer |-> NULL,
          vertex_count |-> 0, index_count |-> 0]

\* create_geometry_pipeline (render_system.c): two shader modules, then the
\* pipeline; NULL when either module is missing.
create_geometry_pipeline(device, faults) ==
    LET vertex_shader == webgpu_create_shader_module(device,
                             <<"shader", "vertex">> \notin faults)
        fragment_shader == webgpu_create_shader_module(device,
                             <<"shader", "fragment">> \notin faults)
    IN IF IsNull(vertex_shader) \/ IsNull(fragment_shader) THEN NULL
       ELSE webgpu_create_geometry_pipeline(device, vertex_shader,
                fragment_shader, <<"pipeline", "default">> \notin faults)

\* ------------------------------------------------------------- the gather
\* A variant of geometry_types: the catalog in the opposite order.
geometry_types_reversed == << Rectangle, Box >>

\* static const ecs_entity_t geometry_types[] = { EcsBox, EcsRectangle }.
geometry_types == << Box, Rectangle >>

\* A variant of CountEntities that stops after the first chunk.
CountFirstChunk(chunks) == IF chunks = <<>> THEN 0 ELSE Len(Head(chunks))

\* The count pass: entity_count += count_it.count over all chunks.
RECURSIVE CountEntities(_)
CountEntities(chunks) ==
    IF chunks = <<>> THEN 0
    ELSE Len(Head(chunks)) + CountEntities(Tail(chunks))

\* A variant of SkipShape without the "continue".
NeverSkipShape(entity_count) == FALSE

\* "if (entity_count == 0) continue": no batch for a shape nothing matches.
SkipShape(entity_count) == entity_count = 0

\* A variant of DefaultColor: black instead of white.
DefaultColorBlack == Rgb(0, 0, 0)

\* The colour written when the chunk has no colour field.
DefaultColor == White

UninitTransform == <<>>
UninitColor == Rgb(-1, -1, -1)

\* What a read past the end of a one-element colour field can yield.
GarbageColors == {UninitColor, SharedColor}

\* batch_colors[j] (0-based j - 1): a read past the end of the field yields
\* whatever lies there.
ReadColor(field, j, garbage) ==
    IF j <= Len(field) THEN field[j] ELSE garbage

\* "if (batch_colors) colors[..] = batch_colors[j]; else white".
CopyColor(w, chunk, j, oob) ==
    IF FieldIsNull(w, chunk) THEN DefaultColor
    ELSE ReadColor(ColorField(w, chunk), j,
                   IF chunk[j] \in DOMAIN oob THEN oob[chunk[j]] ELSE UninitColor)

\* The copy pass: for every chunk, for every j, write slot entity_index and
\* advance it.  acc = [transforms, colors, entity_index, order, defaulted]:
\* order lists the entities in the order they were copied, defaulted the slots
\* written by the else branch.
RECURSIVE GatherPass(_, _, _, _, _)
GatherPass(w, chunks, j, acc, oob) ==
    IF chunks = <<>> THEN acc
    ELSE LET chunk == Head(chunks)
         IN IF j > Len(chunk) THEN GatherPass(w, Tail(chunks), 1, acc, oob)
            ELSE LET slot == acc.entity_index + 1
                 IN GatherPass(w, chunks, j + 1,
                      [transforms |-> [acc.transforms EXCEPT ![slot] = TransformOf(chunk[j])],
                       colors |-> [acc.colors EXCEPT ![slot] = CopyColor(w, chunk, j, oob)],
                       entity_index |-> slot,
                       order |-> Append(acc.order, chunk[j]),
                       defaulted |-> IF FieldIsNull(w, chunk)
                                     THEN acc.defaulted \cup {slot}
                                     ELSE acc.defaulted],
                      oob)

\* The GPU calls create_geometry_pipeline (render_system.c) makes.
PipelineCalls(device, faults) ==
    LET vs == webgpu_create_shader_module(device, <<"shader", "vertex">> \notin faults)
        fs == webgpu_create_shader_module(device, <<"shader", "fragment">> \notin faults)
    IN (IF IsNull(device) THEN <<>>
        ELSE << <<"DeviceCreateShaderModule", "vertex">>,
                <<"DeviceCreateShaderModule", "fragment">> >>)
       \o (IF IsNull(vs) \/ IsNull(fs) THEN <<>>
           ELSE << <<"DeviceCreateRenderPipeline">>,
                   <<"ShaderModuleRelease", "vertex">>,
                   <<"ShaderModuleRelease", "fragment">> >>)

\* The GPU calls get_geometry_buffers makes: sizeof the vertex array and
\* sizeof the index array of the shape.
GeometryBufferCalls(device, geometry_type) ==
    IF geometry_type = Box
    THEN CreateBufferCalls(device, box_vertex_count * FloatsPerVertex * BytesPerFloat,
                           <<geometry_type, "vertex">>)
         \o CreateBufferCalls(device, box_index_count * BytesPerIndex,
                              <<geometry_type, "index">>)
    ELSE IF geometry_type = Rectangle
    THEN CreateBufferCalls(device, rectangle_vertex_count * FloatsPerVertex * BytesPerFloat,
                           <<geometry_type, "vertex">>)
         \o CreateBufferCalls(device, rectangle_index_count * BytesPerIndex,
                              <<geometry_type, "index">>)
    ELSE <<>>

\* A variant of PipelineMissing that never finds a cached pipeline.
PipelineAlwaysMissing(default_pipeline) == TRUE

\* "if (!renderer->default_pipeline)": no pipeline is cached.
PipelineMissing(default_pipeline) == IsNull(default_pipeline)

\* The two CPU-side arrays of a batch.
BatchArrays == <<"transforms", "colors">>

\* One event per array of the batch of geometry_type, in declaration order.
ArrayEvents(what, geometry_type) ==
    [k \in 1..Len(BatchArrays) |-> <<what, geometry_type, BatchArrays[k]>>]

\* The heap events of one iteration of the gather loop: both arrays are
\* allocated and filled; create_instance_buffer packs them when it is reached
\* with a device and a nonzero count.
GatherHeap(device, geometry_type, entity_count, reached) ==
    ArrayEvents("malloc", geometry_type)
    \o ArrayEvents("write", geometry_type)
    \o (IF reached /\ ~(IsNull(device) \/ entity_count = 0)
        THEN ArrayEvents("read", geometry_type) ELSE <<>>)

\* One iteration of the loop over geometry_types for a shape with entities:
\* the batch appended to render_batches, the pipeline cached afterwards and
\* the GPU calls made.  The batch is appended before its buffers are
\* resolved; when get_geometry_buffers reports failure the iteration ends
\* there.
GatherBatch(w, geometry_type, device, default_pipeline, faults, oob) ==
    LET chunks == QueryChunks(w, geometry_type)
        entity_count == CountEntities(chunks)
        filled == GatherPass(w, chunks, 1,
                     [transforms |-> [k \in 1..entity_count |-> UninitTransform],
                      colors |-> [k \in 1..entity_count |-> UninitColor],
                      entity_index |-> 0,
                      order |-> <<>>,
                      defaulted |-> {}], oob)
        geo == get_geometry_buffers(device, geometry_type, faults)
        inst == IF geo.ok
                THEN create_instance_buffer(device, filled.transforms, filled.colors,
                         entity_count, <<geometry_type, "instance">> \notin faults)
                ELSE [buffer |-> NULL, data |-> <<>>]
        pipeline == IF geo.ok /\ PipelineMissing(default_pipeline)
                    THEN create_geometry_pipeline(device, faults)
                    ELSE default_pipeline
    IN [batch |-> [geometry_type |-> geometry_type,
                   instance_count |-> entity_count,
                   transforms |-> filled.transforms,
                   colors |-> filled.colors,
                   order |-> filled.order,
                   defaulted |-> filled.defaulted,
                   vertex_buffer |-> geo.vertex_buffer,
                   index_buffer |-> geo.index_buffer,
                   vertex_count |-> geo.vertex_count,
                   index_count |-> geo.index_count,
                   instance_buffer |-> inst.buffer,
                   instance_data |-> inst.data,
                   pipeline |-> IF geo.ok THEN pipeline ELSE NULL],
        default_pipeline |-> pipeline,
        heap |-> GatherHeap(device, geometry_type, entity_count, geo.ok),
        calls |-> GeometryBufferCalls(device, geometry_type)
                  \o (IF geo.ok
                      THEN CreateBufferCalls(device,
                               entity_count * WEBGPU_BYTES_PER_INSTANCE,
                               <<geometry_type, "instance">>)
                           \o (IF PipelineMissing(default_pipeline)
                               THEN PipelineCalls(device, faults) ELSE <<>>)
                      ELSE <<>>)]

\* webgpu_gather_geometry_batches from geometry_types[i] on.
RECURSIVE GatherFrom(_, _, _, _, _, _, _, _, _)
GatherFrom(i, w, device, batches, default_pipeline, calls, heap, faults, oob) ==
    IF i > Len(geometry_types)
    THEN [render_batches |-> batches, default_pipeline |-> default_pipeline,
          calls |-> calls, heap |-> heap]
    ELSE IF SkipShape(CountEntities(QueryChunks(w, geometry_types[i])))
    THEN GatherFrom(i + 1, w, device, batches, default_pipeline, calls, heap,
                    faults, oob)
    ELSE LET g == GatherBatch(w, geometry_types[i], device, default_pipeline, faults, oob)
         IN GatherFrom(i + 1, w, device, Append(batches, g.batch),
                       g.default_pipeline, calls \o g.calls, heap \o g.heap,
                       faults, oob)

\* webgpu_gather_geometry_batches(world, renderer, query): returns at once on
\* a NULL query; otherwise clears the list and rebuilds it.
webgpu_gather_geometry_batches(w, r, query, faults, oob) ==
    IF IsNull(query)
    THEN [render_batches |-> r.render_batches, default_pipeline |-> r.default_pipeline,
          calls |-> <<>>, heap |-> <<>>]
    ELSE GatherFrom(1, w, r.device, <<>>, r.default_pipeline, <<>>, <<>>, faults, oob)

\* ------------------------------------------------------------ the executor
CameraUniformBytes == 192
LightUniformBytes == 40

\* cglm: mat4 is 16 floats, vec3 is float[3].
sizeof_mat4 == 16 * BytesPerFloat
sizeof_vec3 == 3 * BytesPerFloat

UniformKinds == {"camera", "light"}

\* webgpu_create_camera_uniform_buffer / webgpu_create_light_uniform_buffer:
\* buffer_size.
UniformBufferSize(which) ==
    IF which = "camera" THEN sizeof_mat4 * 3 ELSE LightUniformBytes

\* webgpu_create_camera_bind_group / webgpu_create_light_bind_group:
\* entries[0].size.
BindGroupEntrySize(which) ==
    IF which = "camera" THEN sizeof_mat4 * 3 ELSE 40

\* The size of the uniform struct as the shader declares it: three mat4x4 for
\* Camera; three vec3<f32> at offsets 0, 16, 32 and an f32 at 44 for Light.
ShaderStructSize(which) ==
    IF which = "camera" THEN sizeof_mat4 * 3 ELSE 48

\* minBindingSize of the layouts webgpu_create_geometry_pipeline creates.
PipelineMinBindingSize(which) ==
    IF which = "camera" THEN sizeof_mat4 * 3
    ELSE sizeof_vec3 * 3 + BytesPerFloat

\* minBindingSize of the layouts webgpu_device_callback creates.
CallbackMinBindingSize(which) ==
    IF which = "camera" THEN sizeof_mat4 * 3 ELSE 40

\* sizeof(camera_data) (float[48]) and sizeof(light_data) (ten floats).
UploadSize(which) ==
    IF which = "camera" THEN 48 * BytesPerFloat ELSE 10 * BytesPerFloat

\* webgpu_update_buffer: one queue write, or nothing on a NULL argument.
webgpu_update_buffer(device, queue, buffer, what, size) ==
    IF IsNull(device) \/ IsNull(queue) \/ IsNull(buffer) \/ size = 0 THEN <<>>
    ELSE << <<"QueueWriteBuffer", what, size>> >>

update_camera_uniforms(r) ==
    IF IsNull(r.camera_uniform_buffer) \/ IsNull(r.device) \/ IsNull(r.queue) THEN <<>>
    ELSE webgpu_update_buffer(r.device, r.queue, r.camera_uniform_buffer,
                              "camera", UploadSize("camera"))

update_light_uniforms(r) ==
    IF IsNull(r.light_uniform_buffer) \/ IsNull(r.device) \/ IsNull(r.queue) THEN <<>>
    ELSE webgpu_update_buffer(r.device, r.queue, r.light_uniform_buffer,
                              "light", UploadSize("light"))

\* A variant of BatchIsValid that does not look at the instance buffer.
BatchIsValidWithoutInstances(batch) ==
    /\ ~IsNull(batch.pipeline)
    /\ ~IsNull(batch.vertex_buffer)
    /\ ~IsNull(batch.index_buffer)

\* "if (!pipeline || !vertex_buffer || !index_buffer || !instance_buffer) skip".
BatchIsValid(batch) ==
    /\ ~IsNull(batch.pipeline)
    /\ ~IsNull(batch.vertex_buffer)
    /\ ~IsNull(batch.index_buffer)
    /\ ~IsNull(batch.instance_buffer)

\* The render-pass commands of one batch.
DrawBatch(r, batch) ==
    IF ~BatchIsValid(batch) THEN <<>>
    ELSE << <<"SetPipeline", batch.geometry_type>> >>
         \o (IF IsNull(r.camera_bind_group) THEN <<>> ELSE << <<"SetBindGroup", 0>> >>)
         \o (IF IsNull(r.light_bind_group) THEN <<>> ELSE << <<"SetBindGroup", 1>> >>)
         \o << <<"SetVertexBuffer", 0, batch.geometry_type, "vertex_buffer">>,
               <<"SetVertexBuffer", 1, batch.geometry_type, "instance_buffer">>,
               <<"SetIndexBuffer", batch.geometry_type, "index_buffer">>,
               <<"DrawIndexed", batch.geometry_type, batch.index_count,
                 batch.instance_count>> >>

RECURSIVE DrawBatches(_, _)
DrawBatches(r, batches) ==
    IF batches = <<>> THEN <<>>
    ELSE DrawBatch(r, Head(batches)) \o DrawBatches(r, Tail(batches))

\* A variant of FreeBatchArrays that frees the arrays of drawn batches only.
RECURSIVE FreeDrawnBatchArrays(_)
FreeDrawnBatchArrays(batches) ==
    IF batches = <<>> THEN <<>>
    ELSE (IF BatchIsValid(Head(batches))
          THEN ArrayEvents("free", Head(batches).geometry_type) ELSE <<>>)
         \o FreeDrawnBatchArrays(Tail(batches))

\* The cleanup loop of the executor: "ecs_os_free(batch->transforms);
\* ecs_os_free(batch->colors);" for every batch of the list.
RECURSIVE FreeBatchArrays(_)
FreeBatchArrays(batches) ==
    IF batches = <<>> THEN <<>>
    ELSE ArrayEvents("free", Head(batches).geometry_type)
         \o FreeBatchArrays(Tail(batches))

\* A variant of webgpu_execute_render_batches that leaves the list as it is.
ExecuteKeepsBatches(r, render_pass) ==
    [render_batches |-> r.render_batches,
     heap |-> IF IsNull(render_pass) THEN <<>> ELSE FreeBatchArrays(r.render_batches),
     calls |-> IF IsNull(render_pass) THEN <<>>
               ELSE update_camera_uniforms(r) \o update_light_uniforms(r)
                    \o DrawBatches(r, r.render_batches)]

\* A variant of webgpu_execute_render_batches that records the draws before
\* it uploads the uniforms.
ExecuteDrawsFirst(r, render_pass) ==
    IF IsNull(render_pass)
    THEN [render_batches |-> r.render_batches, calls |-> <<>>, heap |-> <<>>]
    ELSE [render_batches |-> <<>>,
          heap |-> FreeBatchArrays(r.render_batches),
          calls |-> DrawBatches(r, r.render_batches)
                    \o update_camera_uniforms(r) \o update_light_uniforms(r)]

\* webgpu_execute_render_batches: uniform uploads, the draws of every batch in
\* list order, then the arrays of every batch are freed; the list is cleared
\* on return.
webgpu_execute_render_batches(r, render_pass) ==
    IF IsNull(render_pass)
    THEN [render_batches |-> r.render_batches, calls |-> <<>>, heap |-> <<>>]
    ELSE [render_batches |-> <<>>,
          heap |-> FreeBatchArrays(r.render_batches),
          calls |-> update_camera_uniforms(r) \o update_light_uniforms(r)
                    \o DrawBatches(r, r.render_batches)]

\* ------------------------------------------------- the geometry cache
\* ECS_CTOR(WebGPUGeometry): every field zero.  order is the entity behind
\* each element of transform_data / color_data.
ZeroGeometry ==
    [component_id |-> "none", query |-> NULL, allocator |-> NULL,
     vertex_count |-> 0, index_count |-> 0,
     transform_data |-> <<>>, color_data |-> <<>>, order |-> <<>>,
     instance_count |-> 0]

\* webgpu_init_box_geometry / webgpu_init_rectangle_geometry: the catalog
\* counts and the query; the allocator and the vectors only if the query was
\* created.
webgpu_init_geometry(geometry_type, query_ok) ==
    [ZeroGeometry EXCEPT
        !.component_id = geometry_type,
        !.vertex_count = IF geometry_type = Box THEN box_vertex_count
                         ELSE rectangle_vertex_count,
        !.index_count = IF geometry_type = Box THEN box_index_count
                        ELSE rectangle_index_count,
        !.query = IF query_ok THEN HANDLE ELSE NULL,
        !.allocator = IF query_ok THEN HANDLE ELSE NULL]

\* The cache queries: terms { EcsTransform3, EcsRgb, shape }, none optional.
CacheTermsMatch(a, geometry_type) ==
    a.transform /\ a.color # "none" /\ geometry_type \in a.shapes

CacheChunks(w, geometry_type) ==
    LET all == [k \in 1..Len(TableSeq) |-> TableRows(w, k)]
        Matched(c) == Len(c) > 0 /\ CacheTermsMatch(w[c[1]], geometry_type)
    IN SelectSeq(all, Matched)

\* EcsBox (width, height, depth) and EcsRectangle (width, height) of entity
\* e, in tenths.
ShapeScale(geometry_type, e) ==
    IF geometry_type = Box THEN << 10 * e, 10, 20 >>
    ELSE IF geometry_type = Rectangle THEN << 20, 10 * e, 10 >>
    ELSE << 10, 10, 10 >>

\* glm_scale(m, v): column c of m (c = 0, 1, 2) times v[c].
glm_scale(m, v) ==
    [k \in 1..16 |-> IF k <= 12 THEN (m[k] * v[((k - 1) \div 4) + 1]) \div 10
                     ELSE m[k]]

\* A variant of PopulateColor that reads colors[0] whatever the field is.
PopulateFirstColor(w, chunk, i) == ColorField(w, chunk)[1]

\* The colour copied for row i of a chunk: colors[i] for a per-entity field,
\* colors[0] for a shared one; the grown element is left as it is when the
\* field is NULL.
PopulateColor(w, chunk, i) ==
    IF FieldIsNull(w, chunk) THEN UninitColor
    ELSE IF ecs_field_is_self(w, chunk) THEN ColorField(w, chunk)[i]
    ELSE ColorField(w, chunk)[1]

\* One chunk: grow both vectors by it.count, then fill the new elements.
PopulateChunk(w, geometry_type, chunk, acc) ==
    [transform_data |-> acc.transform_data \o
         [i \in 1..Len(chunk) |->
             IF geometry_type \in {Box, Rectangle}
             THEN glm_scale(TransformOf(chunk[i]), ShapeScale(geometry_type, chunk[i]))
             ELSE TransformOf(chunk[i])],
     color_data |-> acc.color_data \o
         [i \in 1..Len(chunk) |-> PopulateColor(w, chunk, i)],
     order |-> acc.order \o chunk]

RECURSIVE PopulatePass(_, _, _, _)
PopulatePass(w, geometry_type, chunks, acc) ==
    IF chunks = <<>> THEN acc
    ELSE PopulatePass(w, geometry_type, Tail(chunks),
                      PopulateChunk(w, geometry_type, Head(chunks), acc))

\* A variant of ecs_vec_clear that leaves the elements in the vector.
ecs_vec_keep(vec) == vec

\* ecs_vec_clear(&vec): the vector has no element afterwards.
ecs_vec_clear(vec) == <<>>

\* webgpu_populate_geometry_buffers(geometry, query) over world w: both
\* vectors are cleared, then grown and filled chunk by chunk.
webgpu_populate_geometry_buffers(g, query, w) ==
    IF IsNull(query) \/ IsNull(g.allocator) THEN g
    ELSE LET filled == PopulatePass(w, g.component_id,
                           CacheChunks(w, g.component_id),
                           [transform_data |-> ecs_vec_clear(g.transform_data),
                            color_data |-> ecs_vec_clear(g.color_data),
                            order |-> ecs_vec_clear(g.order)])
         IN [g EXCEPT !.transform_data = filled.transform_data,
                      !.color_data = filled.color_data,
                      !.order = filled.order,
                      !.instance_count = Len(filled.transform_data)]

\* ------------------------------------------------------ component storage
\* The components the two collectors read, and where their values live: one
\* value per entity that has the component, and the EcsRgb of the base entity
\* that a "shared" table inherits.
ComponentIds == {"EcsTransform3", "EcsRgb", Box, Rectangle}

BaseEntity == 0

ComponentCells == (ComponentIds \X Entities) \cup {<<"EcsRgb", BaseEntity>>}

ComponentValues(w) ==
    [c \in ComponentCells |->
        IF c[2] = BaseEntity THEN <<"value", SharedColor>>
        ELSE IF c[1] = "EcsTransform3"
        THEN (IF w[c[2]].transform THEN <<"value", TransformOf(c[2])>>
              ELSE <<"absent">>)
        ELSE IF c[1] = "EcsRgb"
        THEN (IF w[c[2]].color = "own" THEN <<"value", OwnColor(c[2])>>
              ELSE <<"absent">>)
        ELSE (IF c[1] \in w[c[2]].shapes THEN <<"value", ShapeScale(c[1], c[2])>>
              ELSE <<"absent">>)]

\* A memory write: dst is the cell written, src the three-element description
\* of what is stored there (a copy of a cell, a constant, a scaled matrix).
\* The store after a sequence of writes: only a write whose destination is a
\* component cell changes it.
RECURSIVE ApplyWrites(_, _)
ApplyWrites(store, writes) ==
    IF writes = <<>> THEN store
    ELSE ApplyWrites(IF Head(writes).dst \in DOMAIN store
                     THEN [store EXCEPT ![Head(writes).dst] = Head(writes).src]
                     ELSE store,
                     Tail(writes))

\* Where the colour of row j of a chunk is read from.
ColorSource(w, chunk, j) ==
    IF FieldIsNull(w, chunk) THEN <<"constant", "white", 0>>
    ELSE IF ecs_field_is_self(w, chunk) THEN <<"copy", "EcsRgb", chunk[j]>>
    ELSE <<"copy", "EcsRgb", BaseEntity>>

\* The writes of the copy pass of the gather for one shape: "transforms[
\* entity_index] = batch_transforms[j]" and "colors[entity_index] = ...",
\* slot after slot.
RECURSIVE GatherCopyWrites(_, _, _, _, _)
GatherCopyWrites(w, geometry_type, chunks, j, entity_index) ==
    IF chunks = <<>> THEN <<>>
    ELSE LET chunk == Head(chunks)
         IN IF j > Len(chunk)
            THEN GatherCopyWrites(w, geometry_type, Tail(chunks), 1, entity_index)
            ELSE << [dst |-> <<"transforms", geometry_type, entity_index + 1>>,
                     src |-> <<"copy", "EcsTransform3", chunk[j]>>],
                    [dst |-> <<"colors", geometry_type, entity_index + 1>>,
                     src |-> ColorSource(w, chunk, j)] >>
                 \o GatherCopyWrites(w, geometry_type, chunks, j + 1,
                                     entity_index + 1)

\* The writes of webgpu_gather_geometry_batches: none on a NULL query, else
\* the copy pass of every shape that has an entity.
RECURSIVE GatherWrites(_, _, _)
GatherWrites(w, query, i) ==
    IF IsNull(query) \/ i > Len(geometry_types) THEN <<>>
    ELSE (IF SkipShape(CountEntities(QueryChunks(w, geometry_types[i]))) THEN <<>>
          ELSE GatherCopyWrites(w, geometry_types[i],
                                QueryChunks(w, geometry_types[i]), 1, 0))
         \o GatherWrites(w, query, i + 1)

\* A variant of ScaleWrite that scales the EcsTransform3 of the entity.
ScaleWriteInPlace(geometry_type, slot, e) ==
    [dst |-> <<"EcsTransform3", e>>, src |-> <<"scaled", geometry_type, e>>]

\* "glm_scale(*transform, scale)" with transform = ecs_vec_get_t(
\* &geometry->transform_data, mat4, current_count + i).
ScaleWrite(geometry_type, slot, e) ==
    [dst |-> <<"transform_data", geometry_type, slot>>,
     src |-> <<"scaled", geometry_type, e>>]

\* The writes of webgpu_populate_geometry_buffers for one chunk: the transform
\* loop, the colour loop, then the scaling loop.
PopulateChunkWrites(w, geometry_type, chunk, current_count) ==
    [i \in 1..Len(chunk) |->
        [dst |-> <<"transform_data", geometry_type, current_count + i>>,
         src |-> <<"copy", "EcsTransform3", chunk[i]>>]]
    \o (IF FieldIsNull(w, chunk) THEN <<>>
        ELSE [i \in 1..Len(chunk) |->
                 [dst |-> <<"color_data", geometry_type, current_count + i>>,
                  src |-> IF ecs_field_is_self(w, chunk)
                          THEN <<"copy", "EcsRgb", chunk[i]>>
                          ELSE <<"copy", "EcsRgb", BaseEntity>>]])
    \o (IF geometry_type \in {Box, Rectangle}
        THEN [i \in 1..Len(chunk) |->
                 ScaleWrite(geometry_type, current_count + i, chunk[i])]
        ELSE <<>>)

RECURSIVE PopulateWrites(_, _, _, _)
PopulateWrites(w, geometry_type, chunks, current_count) ==
    IF chunks = <<>> THEN <<>>
    ELSE PopulateChunkWrites(w, geometry_type, Head(chunks), current_count)
         \o PopulateWrites(w, geometry_type, Tail(chunks),
                           current_count + Len(Head(chunks)))

\* The writes of one run of webgpu_populate_geometry_system.
RECURSIVE PopulateSystemWrites(_, _, _)
PopulateSystemWrites(geo, w, i) ==
    IF i > Len(geometry_types) THEN <<>>
    ELSE LET g == geo[geometry_types[i]]
         IN (IF IsNull(g.query) \/ IsNull(g.allocator) THEN <<>>
             ELSE PopulateWrites(w, g.component_id,
                                 CacheChunks(w, g.component_id), 0))
            \o PopulateSystemWrites(geo, w, i + 1)

\* ------------------------------------------------------------------ state
VARIABLES
    world,                 \* the ECS world: entity -> archetype
    geometry,              \* the WebGPUGeometry cache, per shape type
    webgpu_query,          \* WebGPUQuery.query of the renderer entity
    renderer,              \* the WebGPURenderer component of the renderer entity
    extras,                \* further WebGPURenderer instances, per table
    canvas,                \* EcsCanvas of renderer.canvas_entity
    webgpu_error_occurred, \* the process-wide error latch
    handshake,             \* the adapter / device requests in flight
    destroyed,             \* the destructor of the renderer component has run
    candidates,            \* entities with EcsCanvas and no WebGPURenderer, per table
    init_system,           \* the webgpu_init_renderer system and what it wrote
    frame,                 \* what the last render-system invocation did
    resource_call,         \* the last resource-manager call made on its own
    components,            \* the component values stored in the ECS tables
    history                \* what has happened so far (for the properties)

vars == << world, geometry, webgpu_query, renderer, extras, canvas, webgpu_error_occurred,
           handshake, destroyed, candidates, init_system, frame, resource_call,
           components, history >>

\* The initialization system as FlecsSystemsWebGPUImport registers it: enabled;
\* slots is the memory its body writes, requests the adapter and device
\* requests in flight as << kind, slot, table >>.
InitSystemRegistered ==
    [enabled |-> TRUE, crashed |-> FALSE, slots |-> <<>>, requests |-> {}]

\* Canvas sizes the host can report (demo_init starts at 1024 x 600).
CanvasSizes == { [width |-> 1024, height |-> 600],
                 [width |-> 800,  height |-> 600],
                 [width |-> 1024, height |-> 768] }
DemoCanvas == [width |-> 1024, height |-> 600]

\* The tables of the entities that webgpu_init_renderer matches (EcsCanvas and
\* no WebGPURenderer): two archetypes, in the order the query visits them.
CanvasTableSeq == << "canvas", "canvas_tagged" >>
CanvasTables == {CanvasTableSeq[k] : k \in 1..Len(CanvasTableSeq)}

\* ECS_CTOR(WebGPURenderer): every field zero.
ZeroRenderer ==
    [instance |-> NULL, adapter |-> NULL, device |-> NULL, queue |-> NULL,
     geometry_query |-> NULL,
     surface |-> NULL, width |-> 0, height |-> 0, needs_resize |-> FALSE,
     render_batches |-> <<>>, default_pipeline |-> NULL,
     command_encoder |-> NULL, frame_index |-> 0,
     depth_texture |-> NULL, depth_texture_view |-> NULL,
     camera_uniform_buffer |-> NULL, light_uniform_buffer |-> NULL,
     camera_layout |-> NULL, light_layout |-> NULL,
     camera_bind_group |-> NULL, light_bind_group |-> NULL]

\* The renderer entity lives in the table MainTable; a further renderer
\* instance lives in the same table or in another one (an entity with a
\* different set of components).
MainTable == "main"
OtherTable == "other"
RendererTables == {MainTable, OtherTable}

\* it->count of the render system's invocation for table t.
TableCount(t) == IF t = MainTable THEN 1 + extras[t] ELSE extras[t]

NoFrame ==
    [ran |-> FALSE, table |-> MainTable, count |-> 0, device_null |-> FALSE,
     latched |-> FALSE, path |-> "none", calls |-> <<>>, heap |-> <<>>,
     batches |-> <<>>,
     gathered |-> FALSE, unchanged |-> TRUE, texture |-> FALSE, view |-> FALSE]

\* No resource-manager call has been made on its own yet.
NoCall == [op |-> "none"]

\* --------------------------------------------------- the render system
\* "if (it->count > 1)": more than one renderer instance.
MultipleInstances(count) == count > 1

\* A variant of DeviceNotReady that lets every renderer through.
DeviceAlwaysReady(r) == FALSE

\* "if (!renderer->device) return".
DeviceNotReady(r) == IsNull(r.device)

\* A variant of RenderingHalted that ignores the latch.
NeverHalted(latch) == FALSE

\* "if (webgpu_error_occurred) return".
RenderingHalted(latch) == latch

\* A variant of ResyncCanvas that compares the width only.
ResyncWidthOnly(r, cv) ==
    IF r.width # cv.width
    THEN [r EXCEPT !.width = cv.width, !.height = cv.height, !.needs_resize = TRUE]
    ELSE r

\* The canvas resync: width, height and needs_resize after it.
ResyncCanvas(r, cv) ==
    IF r.width # cv.width \/ r.height # cv.height
    THEN [r EXCEPT !.width = cv.width, !.height = cv.height, !.needs_resize = TRUE]
    ELSE r

\* The body of webgpu_render_system from the command encoder on: a full frame.
FullFrame(r, w, query, faults, oob) ==
    LET r1 == [r EXCEPT !.command_encoder = HANDLE]
        has_depth_attachment == ~IsNull(r1.depth_texture_view)
        g == webgpu_gather_geometry_batches(w, r1, query, faults, oob)
        r2 == [r1 EXCEPT !.render_batches = g.render_batches,
                         !.default_pipeline = g.default_pipeline]
        x == webgpu_execute_render_batches(r2, HANDLE)
        r3 == [r2 EXCEPT !.render_batches = x.render_batches]
    IN [renderer |-> [r3 EXCEPT !.frame_index = r3.frame_index + 1],
        path |-> "frame",
        gathered |-> ~IsNull(query),
        batches |-> g.render_batches,
        heap |-> g.heap \o x.heap,
        calls |-> << <<"SurfaceGetCurrentTexture">>,
                     <<"TextureCreateView">>,
                     <<"DeviceCreateCommandEncoder">>,
                     <<"CommandEncoderBeginRenderPass", has_depth_attachment>> >>
                  \o g.calls
                  \o x.calls
                  \o << <<"RenderPassEncoderEnd">>,
                        <<"CommandEncoderFinish">>,
                        <<"QueueSubmit">>,
                        <<"TextureViewRelease">>,
                        <<"CommandBufferRelease">>,
                        <<"RenderPassEncoderRelease">>,
                        <<"CommandEncoderRelease">> >>]

\* A variant of Skipped that counts the frame.
SkippedCountsFrame(r, path, calls) ==
    [renderer |-> [r EXCEPT !.frame_index = r.frame_index + 1], path |-> path,
     gathered |-> FALSE, batches |-> <<>>, heap |-> <<>>, calls |-> calls]

\* An early return of webgpu_render_system: nothing gathered, the renderer as
\* it is at the return.
Skipped(r, path, calls) ==
    [renderer |-> r, path |-> path, gathered |-> FALSE, batches |-> <<>>,
     heap |-> <<>>, calls |-> calls]

\* webgpu_render_system(it) for an invocation with it->count = count whose
\* first renderer is r.
RenderFrame(r, count, latch, w, query, cv, texture_ok, view_ok, faults, oob) ==
    IF MultipleInstances(count) THEN Skipped(r, "multiple", <<>>)
    ELSE IF DeviceNotReady(r) THEN Skipped(r, "no_device", <<>>)
    ELSE IF RenderingHalted(latch) THEN Skipped(r, "halted", <<>>)
    ELSE LET r1 == ResyncCanvas(r, cv)
         IN IF ~texture_ok
            THEN Skipped(r1, "no_surface_texture", << <<"SurfaceGetCurrentTexture">> >>)
            ELSE IF ~view_ok
            THEN Skipped(r1, "no_view", << <<"SurfaceGetCurrentTexture">>,
                                           <<"TextureCreateView">> >>)
            ELSE FullFrame(r1, w, query, faults, oob)

\* The creation calls of a frame's gather that can fail.
GatherSites(w, r, query) ==
    IF IsNull(query) THEN {}
    ELSE LET present == {g \in {Box, Rectangle} : QueryChunks(w, g) # <<>>}
         IN (present \X BufferKinds)
            \cup (IF present # {} /\ IsNull(r.default_pipeline)
                  THEN {<<"shader", "vertex">>, <<"shader", "fragment">>,
                        <<"pipeline", "default">>}
                  ELSE {})

CallsNamed(calls, name) == SelectSeq(calls, LAMBDA c : c[1] = name)

\* The GPU buffers the gather created for a batch list: the non-null vertex,
\* index and instance buffers.
BuffersCreated(batches) ==
    Cardinality({<<k, kind>> \in (1..Len(batches)) \X BufferKinds :
                    ~IsNull(batches[k][IF kind = "vertex" THEN "vertex_buffer"
                                       ELSE IF kind = "index" THEN "index_buffer"
                                       ELSE "instance_buffer"])})

\* A frame loses buffers when it created more than it released and its batch
\* list, which held the only references to them, is empty at its end.
BuffersLost(out) ==
    /\ BuffersCreated(out.batches) > Len(CallsNamed(out.calls, "BufferRelease"))
    /\ out.renderer.render_batches = <<>>

\* The two ways a frame aborts: the surface texture status is not success, or
\* the texture view could not be created.
AbortPaths == {"no_surface_texture", "no_view"}

\* Whether an invocation gets as far as acquiring the surface texture.
ReachesSurface(r, count, latch) ==
    ~MultipleInstances(count) /\ ~DeviceNotReady(r) /\ ~RenderingHalted(latch)

webgpu_render_system(t) ==
    /\ ~destroyed
    /\ TableCount(t) >= 1
    /\ renderer.frame_index < MaxFrames
    /\ LET r == IF t = MainTable THEN renderer ELSE ZeroRenderer
           live == ReachesSurface(r, TableCount(t), webgpu_error_occurred)
       IN \E texture_ok \in IF live THEN BOOLEAN ELSE {FALSE} :
          \E view_ok \in IF texture_ok THEN BOOLEAN ELSE {FALSE} :
          \E faults \in IF view_ok
                        THEN FaultSets(GatherSites(world, r, webgpu_query))
                        ELSE {{}} :
          \E oob \in IF view_ok /\ ~IsNull(webgpu_query)
                     THEN [OobEntities(world) -> GarbageColors]
                     ELSE {[e \in OobEntities(world) |-> UninitColor]} :
            \E out \in {RenderFrame(r, TableCount(t), webgpu_error_occurred, world,
                                   webgpu_query, canvas, texture_ok, view_ok,
                                   faults, oob)} :
               /\ renderer' = IF t = MainTable THEN out.renderer ELSE renderer
               /\ components' = IF out.path = "frame"
                                 THEN ApplyWrites(components,
                                          GatherWrites(world, webgpu_query, 1))
                                 ELSE components
               /\ frame' = [ran |-> TRUE, table |-> t, count |-> TableCount(t),
                            device_null |-> IsNull(r.device),
                            latched |-> webgpu_error_occurred,
                            path |-> out.path, calls |-> out.calls,
                            heap |-> out.heap,
                            batches |-> out.batches, gathered |-> out.gathered,
                            unchanged |-> (out.renderer = r),
                            texture |-> texture_ok, view |-> view_ok]
               /\ history' = [history EXCEPT
                      !.prev_gathered = frame.gathered,
                      !.prev_aborted = frame.path \in AbortPaths,
                      !.leaked = @ \/ BuffersLost(out),
                      !.prev_types = [k \in 1..Len(frame.batches) |->
                                         frame.batches[k].geometry_type]]
    /\ UNCHANGED << world, resource_call, destroyed, candidates, init_system, geometry, webgpu_query, extras, canvas, webgpu_error_occurred,
                    handshake >>

\* ------------------------------------------------- initialisation handshake
\* The creation calls of webgpu_device_callback that can fail.
DeviceSites ==
    { <<"texture", "depth">>, <<"view", "depth">>,
      <<"buffer", "camera">>, <<"buffer", "light">>,
      <<"shader", "vertex">>, <<"shader", "fragment">>,
      <<"pipeline", "default">>,
      <<"layout", "camera">>, <<"layout", "light">>,
      <<"bindgroup", "camera">>, <<"bindgroup", "light">> }

webgpu_create_depth_texture(device, width, height, ok) ==
    IF IsNull(device) \/ width = 0 \/ height = 0 THEN NULL
    ELSE IF ok THEN HANDLE ELSE NULL

webgpu_create_depth_texture_view(depth_texture, ok) ==
    IF IsNull(depth_texture) THEN NULL ELSE IF ok THEN HANDLE ELSE NULL

\* webgpu_create_camera_bind_group / webgpu_create_light_bind_group: the
\* device rejects a NULL layout.
CreateBindGroup(layout, ok) ==
    IF IsNull(layout) THEN NULL ELSE IF ok THEN HANDLE ELSE NULL

\* The renderer after a successful webgpu_device_callback.
DeviceAcquired(r, faults) ==
    LET Ok(site) == site \notin faults
        device == HANDLE
        depth_texture == webgpu_create_depth_texture(device, r.width, r.height,
                                                     Ok(<<"texture", "depth">>))
        depth_view == webgpu_create_depth_texture_view(depth_texture,
                                                       Ok(<<"view", "depth">>))
        camera == webgpu_create_buffer(device, CameraUniformBytes, Ok(<<"buffer", "camera">>))
        light == webgpu_create_buffer(device, LightUniformBytes, Ok(<<"buffer", "light">>))
        buffers == ~IsNull(camera) /\ ~IsNull(light)
        vs == IF buffers THEN webgpu_create_shader_module(device, Ok(<<"shader", "vertex">>))
              ELSE NULL
        fs == IF buffers THEN webgpu_create_shader_module(device, Ok(<<"shader", "fragment">>))
              ELSE NULL
        pipeline == IF ~IsNull(vs) /\ ~IsNull(fs)
                    THEN webgpu_create_geometry_pipeline(device, vs, fs,
                                                         Ok(<<"pipeline", "default">>))
                    ELSE NULL
        camera_layout == IF ~IsNull(pipeline) /\ Ok(<<"layout", "camera">>)
                         THEN HANDLE ELSE NULL
        light_layout == IF ~IsNull(pipeline) /\ Ok(<<"layout", "light">>)
                        THEN HANDLE ELSE NULL
    IN [r EXCEPT !.device = device,
                 !.queue = HANDLE,
                 !.depth_texture = depth_texture,
                 !.depth_texture_view = depth_view,
                 !.camera_uniform_buffer = camera,
                 !.light_uniform_buffer = light,
                 !.default_pipeline = pipeline,
                 !.camera_layout = camera_layout,
                 !.light_layout = light_layout,
                 !.camera_bind_group =
                     IF IsNull(pipeline) THEN NULL
                     ELSE CreateBindGroup(camera_layout, Ok(<<"bindgroup", "camera">>)),
                 !.light_bind_group =
                     IF IsNull(pipeline) THEN NULL
                     ELSE CreateBindGroup(light_layout, Ok(<<"bindgroup", "light">>))]

\* The body of webgpu_device_callback on st = the renderer, the requests in
\* flight and whether the error callback is installed: on success store device
\* and queue, install the error callback and create the device-level resources.
DeviceCompletion(st, success, faults) ==
    IF success
    THEN [renderer |-> DeviceAcquired(st.renderer, faults),
          handshake |-> [st.handshake EXCEPT !.device = "done"],
          installed |-> TRUE]
    ELSE [st EXCEPT !.handshake.device = "failed"]

\* A variant of AdapterCompletion that requests the device without storing
\* the adapter.
AdapterCompletionNoStore(st, success) ==
    IF success
    THEN [st EXCEPT !.handshake = [adapter |-> "done", device |-> "pending"]]
    ELSE [st EXCEPT !.handshake.adapter = "failed"]

\* A variant of AdapterCompletion that stores the adapter and requests no
\* device.
AdapterCompletionNoChain(st, success) ==
    IF success
    THEN [st EXCEPT !.renderer.adapter = HANDLE, !.handshake.adapter = "done"]
    ELSE [st EXCEPT !.handshake.adapter = "failed"]

\* The body of webgpu_adapter_callback: on success store the adapter and
\* request the device.
AdapterCompletion(st, success) ==
    IF success
    THEN [st EXCEPT !.renderer.adapter = HANDLE,
                    !.handshake = [adapter |-> "done", device |-> "pending"]]
    ELSE [st EXCEPT !.handshake.adapter = "failed"]

\* The completions the platform delivers inside the request call, before it
\* returns: none, the adapter's, or the adapter's and then the device's.
InlineDeliveries ==
    {<<>>} \cup {<<a>> : a \in BOOLEAN} \cup {<<TRUE, d>> : d \in BOOLEAN}

\* The requests in flight and the renderer after the completions delivered
\* inside wgpuInstanceRequestAdapter.
DeliverInline(st, inline, faults) ==
    LET st1 == IF Len(inline) >= 1 THEN AdapterCompletion(st, inline[1]) ELSE st
    IN IF Len(inline) = 2 THEN DeviceCompletion(st1, inline[2], faults) ELSE st1

\* demo_init: the manual initialisation of the renderer entity.  The adapter
\* is requested only if the instance and the surface were created.
demo_init(instance_ok, surface_ok, inline, faults) ==
    /\ ~destroyed
    /\ ~history.initialised
    /\ LET instance == IF instance_ok THEN HANDLE ELSE NULL
           surface == IF ~IsNull(instance) /\ surface_ok THEN HANDLE ELSE NULL
           requested == ~IsNull(instance) /\ ~IsNull(surface)
           st == [renderer |-> [renderer EXCEPT !.width = canvas.width,
                                                !.height = canvas.height,
                                                !.instance = instance,
                                                !.surface = surface],
                  handshake |-> [handshake EXCEPT
                                    !.adapter = IF requested THEN "pending" ELSE "none"],
                  installed |-> history.error_callback_installed]
       IN /\ inline # <<>> => requested
          /\ faults # {} => inline = <<TRUE, TRUE>>
          /\ \E out \in {DeliverInline(st, inline, faults)} :
                /\ renderer' = out.renderer
                /\ handshake' = out.handshake
                /\ history' = [history EXCEPT !.initialised = TRUE,
                                              !.error_callback_installed = out.installed]
    /\ frame' = NoFrame
    /\ UNCHANGED << world, components, resource_call, destroyed, candidates, init_system, geometry, webgpu_query, extras, canvas, webgpu_error_occurred >>

\* webgpu_adapter_callback, delivered after the request call has returned.
webgpu_adapter_callback(success) ==
    /\ ~destroyed
    /\ handshake.adapter = "pending"
    /\ \E out \in {AdapterCompletion([renderer |-> renderer, handshake |-> handshake,
                                       installed |-> history.error_callback_installed],
                                      success)} :
          /\ renderer' = out.renderer
          /\ handshake' = out.handshake
    /\ frame' = NoFrame
    /\ UNCHANGED << world, components, resource_call, destroyed, candidates, init_system, geometry, webgpu_query, extras, canvas, webgpu_error_occurred,
                    history >>

\* webgpu_device_callback, delivered after the request call has returned.
webgpu_device_callback(success) ==
    /\ ~destroyed
    /\ handshake.device = "pending"
    /\ \E faults \in IF success THEN FaultSets(DeviceSites) ELSE {{}} :
       \E out \in {DeviceCompletion([renderer |-> renderer, handshake |-> handshake,
                                      installed |-> history.error_callback_installed],
                                     success, faults)} :
          /\ renderer' = out.renderer
          /\ handshake' = out.handshake
          /\ history' = [history EXCEPT !.error_callback_installed = out.installed]
    /\ frame' = NoFrame
    /\ UNCHANGED << world, components, resource_call, destroyed, candidates, init_system, geometry, webgpu_query, extras, canvas, webgpu_error_occurred >>

\* ---------------------------------------------------------- the error latch
ErrorTypes == {"Validation", "OutOfMemory", "Internal", "Unknown", "DeviceLost"}

\* A variant of LatchAfterError that latches validation errors only.
LatchOnValidationOnly(type, latch) == latch \/ type = "Validation"

\* The value webgpu_device_error_callback leaves in webgpu_error_occurred.
LatchAfterError(type, latch) == TRUE

webgpu_device_error_callback(type) ==
    /\ ~destroyed
    /\ history.error_callback_installed
    /\ webgpu_error_occurred' = LatchAfterError(type, webgpu_error_occurred)
    /\ history' = [history EXCEPT !.error_reported = TRUE]
    /\ frame' = NoFrame
    /\ UNCHANGED << world, components, resource_call, destroyed, candidates, init_system, geometry, webgpu_query, renderer, extras, canvas, handshake >>

\* ------------------------------------------------------------ environment
\* The host resizes the canvas.
CanvasResize(cv) ==
    /\ ~destroyed
    /\ cv # canvas
    /\ canvas' = cv
    /\ frame' = NoFrame
    /\ UNCHANGED << world, components, resource_call, destroyed, candidates, init_system, geometry, webgpu_query, renderer, extras, webgpu_error_occurred,
                    handshake, history >>

\* The application adds a WebGPURenderer (with a WebGPUQuery) to another
\* entity of table t; its constructor zeroes it.
AddRenderer(t) ==
    /\ ~destroyed
    /\ extras[MainTable] + extras[OtherTable] < MaxExtraRenderers
    /\ extras' = [extras EXCEPT ![t] = extras[t] + 1]
    /\ frame' = NoFrame
    /\ UNCHANGED << world, components, resource_call, destroyed, candidates, init_system, geometry, webgpu_query, renderer, canvas, webgpu_error_occurred,
                    handshake, history >>

RemoveRenderer(t) ==
    /\ ~destroyed
    /\ extras[t] > 0
    /\ extras' = [extras EXCEPT ![t] = extras[t] - 1]
    /\ frame' = NoFrame
    /\ UNCHANGED << world, components, resource_call, destroyed, candidates, init_system, geometry, webgpu_query, renderer, canvas, webgpu_error_occurred,
                    handshake, history >>

\* ----------------------------------------------------------- specification
NoHistory ==
    [initialised |-> FALSE, error_callback_installed |-> FALSE,
     error_reported |-> FALSE, prev_types |-> <<>>, prev_gathered |-> FALSE,
     prev_aborted |-> FALSE, released |-> <<>>, leaked |-> FALSE,
     init_runs |-> 0, init_requests |-> 0]

\* The scene demo_create_scene builds: boxes with a transform and a colour.
DemoWorld == [e \in Entities |-> TableSeq[1]]

\* The demo application: the renderer entity has just been created.
Init ==
    /\ world = DemoWorld
    /\ geometry = [g \in {Box, Rectangle} |-> ZeroGeometry]
    /\ webgpu_query \in {NULL, HANDLE}
    /\ renderer = ZeroRenderer
    /\ extras = [t \in RendererTables |-> 0]
    /\ canvas = DemoCanvas
    /\ webgpu_error_occurred = FALSE
    /\ handshake = [adapter |-> "none", device |-> "none"]
    /\ destroyed = FALSE
    /\ candidates = [t \in CanvasTables |-> 0]
    /\ init_system = InitSystemRegistered
    /\ frame = NoFrame
    /\ resource_call = NoCall
    /\ components = ComponentValues(world)
    /\ history = NoHistory

\* The release the destructor makes for a field, if the field is not NULL.
ReleaseIfSet(r, call, field) ==
    IF IsNull(r[field]) THEN <<>> ELSE << << call, field >> >>

\* A variant of WebGPURenderer_dtor that releases the instance first.
DtorInstanceFirst(r) ==
    ReleaseIfSet(r, "InstanceRelease", "instance")
    \o ReleaseIfSet(r, "ecs_query_fini", "geometry_query")
    \o ReleaseIfSet(r, "TextureViewRelease", "depth_texture_view")
    \o ReleaseIfSet(r, "TextureRelease", "depth_texture")
    \o ReleaseIfSet(r, "SurfaceRelease", "surface")
    \o ReleaseIfSet(r, "QueueRelease", "queue")
    \o ReleaseIfSet(r, "DeviceRelease", "device")
    \o ReleaseIfSet(r, "AdapterRelease", "adapter")

\* ECS_DTOR(WebGPURenderer): the query it finalises and the GPU releases it
\* makes, in source order.
WebGPURenderer_dtor(r) ==
    ReleaseIfSet(r, "ecs_query_fini", "geometry_query")
    \o ReleaseIfSet(r, "TextureViewRelease", "depth_texture_view")
    \o ReleaseIfSet(r, "TextureRelease", "depth_texture")
    \o ReleaseIfSet(r, "SurfaceRelease", "surface")
    \o ReleaseIfSet(r, "QueueRelease", "queue")
    \o ReleaseIfSet(r, "DeviceRelease", "device")
    \o ReleaseIfSet(r, "AdapterRelease", "adapter")
    \o ReleaseIfSet(r, "InstanceRelease", "instance")

\* The renderer component is removed (or its entity deleted, or the world
\* finalised): the destructor hook runs once and the component is gone.
DestroyRenderer ==
    /\ ~destroyed
    /\ destroyed' = TRUE
    /\ history' = [history EXCEPT !.released = WebGPURenderer_dtor(renderer)]
    /\ frame' = NoFrame
    /\ UNCHANGED << world, components, resource_call, geometry, webgpu_query, renderer, extras, canvas,
                    webgpu_error_occurred, handshake, candidates, init_system >>

Next ==
    \/ \E instance_ok \in BOOLEAN, surface_ok \in BOOLEAN :
       \E inline \in InlineDeliveries, faults \in FaultSets(DeviceSites) :
          demo_init(instance_ok, surface_ok, inline, faults)
    \/ \E success \in BOOLEAN : webgpu_adapter_callback(success)
    \/ \E success \in BOOLEAN : webgpu_device_callback(success)
    \/ \E type \in ErrorTypes : webgpu_device_error_callback(type)
    \/ \E cv \in CanvasSizes : CanvasResize(cv)
    \/ \E t \in RendererTables : AddRenderer(t)
    \/ \E t \in RendererTables : RemoveRenderer(t)
    \/ \E t \in RendererTables : webgpu_render_system(t)
    \/ DestroyRenderer

Spec == Init /\ [][Next]_vars

\* --------------------------------------------- the frame over any world
\* The renderer once demo_init and both callbacks have succeeded.
ReadyRenderer(faults) ==
    DeviceAcquired([ZeroRenderer EXCEPT !.width = DemoCanvas.width,
                                        !.height = DemoCanvas.height,
                                        !.instance = HANDLE,
                                        !.surface = HANDLE,
                                        !.adapter = HANDLE], faults)

\* Any world, the device ready and every device-level resource created.
InitGather ==
    /\ world \in Worlds
    /\ geometry = [g \in {Box, Rectangle} |-> ZeroGeometry]
    /\ webgpu_query \in {NULL, HANDLE}
    /\ renderer = ReadyRenderer({})
    /\ extras = [t \in RendererTables |-> 0]
    /\ canvas = DemoCanvas
    /\ webgpu_error_occurred = FALSE
    /\ handshake = [adapter |-> "done", device |-> "done"]
    /\ destroyed = FALSE
    /\ candidates = [t \in CanvasTables |-> 0]
    /\ init_system = InitSystemRegistered
    /\ frame = NoFrame
    /\ resource_call = NoCall
    /\ components = ComponentValues(world)
    /\ history = [NoHistory EXCEPT !.initialised = TRUE,
                                   !.error_callback_installed = TRUE]

NextGather == \E t \in {MainTable} : webgpu_render_system(t)

SpecGather == InitGather /\ [][NextGather]_vars

\* ------------------------------------------- the geometry cache systems
\* webgpu_geometry_import: both geometry entities are initialised.
webgpu_geometry_import(box_query_ok, rectangle_query_ok) ==
    /\ \A g \in {Box, Rectangle} : geometry[g].component_id = "none"
    /\ geometry' = [g \in {Box, Rectangle} |->
                       webgpu_init_geometry(g, IF g = Box THEN box_query_ok
                                               ELSE rectangle_query_ok)]
    /\ UNCHANGED << world, components, resource_call, destroyed, candidates, init_system, webgpu_query, renderer, extras, canvas,
                    webgpu_error_occurred, handshake, frame, history >>

\* webgpu_populate_geometry_system: every geometry with a query is refilled.
webgpu_populate_geometry_system ==
    /\ \A g \in {Box, Rectangle} : geometry[g].component_id # "none"
    /\ geometry' = [g \in {Box, Rectangle} |->
                       IF ~IsNull(geometry[g].query)
                       THEN webgpu_populate_geometry_buffers(geometry[g],
                                geometry[g].query, world)
                       ELSE geometry[g]]
    /\ components' = ApplyWrites(components, PopulateSystemWrites(geometry, world, 1))
    /\ UNCHANGED << world, resource_call, destroyed, candidates, init_system, webgpu_query, renderer, extras, canvas,
                    webgpu_error_occurred, handshake, frame, history >>

InitPopulate ==
    /\ world \in Worlds
    /\ geometry = [g \in {Box, Rectangle} |-> ZeroGeometry]
    /\ webgpu_query = NULL
    /\ renderer = ZeroRenderer
    /\ extras = [t \in RendererTables |-> 0]
    /\ canvas = DemoCanvas
    /\ webgpu_error_occurred = FALSE
    /\ handshake = [adapter |-> "none", device |-> "none"]
    /\ destroyed = FALSE
    /\ candidates = [t \in CanvasTables |-> 0]
    /\ init_system = InitSystemRegistered
    /\ frame = NoFrame
    /\ resource_call = NoCall
    /\ components = ComponentValues(world)
    /\ history = NoHistory

NextPopulate ==
    \/ \E box_query_ok \in BOOLEAN, rectangle_query_ok \in BOOLEAN :
          webgpu_geometry_import(box_query_ok, rectangle_query_ok)
    \/ webgpu_populate_geometry_system

SpecPopulate == InitPopulate /\ [][NextPopulate]_vars

\* ------------------------------------------- the initialization system
\* The ways the write through the NULL field pointer of the Not-term
\* (renderer = ecs_field(it, WebGPURenderer, 0)) can end: the process traps, or
\* the writes land in the memory at address 0 and the body goes on.
NullWriteOutcomes == {"trap", "proceed"}

\* renderer[i] before the body writes it.
SlotBefore(slots, i) == IF i <= Len(slots) THEN slots[i] ELSE ZeroRenderer

\* One iteration of the loop of webgpu_init_renderer: size, batch list and
\* instance; without an instance "continue"; otherwise the surface and the
\* adapter request, whatever the surface is.
InitRendererEntity(before, cv, instance_ok, surface_ok) ==
    LET instance == IF instance_ok THEN HANDLE ELSE NULL
        surface == IF surface_ok THEN HANDLE ELSE NULL
        r1 == [before EXCEPT !.width = cv.width, !.height = cv.height,
                             !.render_batches = <<>>, !.instance = instance]
    IN IF IsNull(instance) THEN [renderer |-> r1, requested |-> FALSE]
       ELSE [renderer |-> [r1 EXCEPT !.surface = surface,
                                     !.geometry_query = HANDLE],
             requested |-> TRUE]

\* The loop "for (i = 0; i < it->count; i++)" from entity i on; st carries the
\* system, the number of body runs and the number of adapter requests.
RECURSIVE InitLoop(_, _, _, _, _, _)
InitLoop(st, t, i, count, cv, faults) ==
    IF i > count THEN st
    ELSE LET e == InitRendererEntity(SlotBefore(st.system.slots, i), cv,
                                     <<"instance", t, i>> \notin faults,
                                     <<"surface", t, i>> \notin faults)
             slots == IF i <= Len(st.system.slots)
                      THEN [st.system.slots EXCEPT ![i] = e.renderer]
                      ELSE Append(st.system.slots, e.renderer)
             requests == IF e.requested
                         THEN st.system.requests \cup {<<"adapter", i, t>>}
                         ELSE st.system.requests
         IN InitLoop([st EXCEPT !.system.slots = slots,
                                !.system.requests = requests,
                                !.requests = @ + (IF e.requested THEN 1 ELSE 0)],
                     t, i + 1, count, cv, faults)

\* The body of webgpu_init_renderer for one matched table: the loop, then
\* ecs_enable(world, it->system, false).
InitRendererBody(st, t, count, cv, faults) ==
    LET done == InitLoop(st, t, 1, count, cv, faults)
    IN [done EXCEPT !.system.enabled = FALSE, !.runs = @ + 1]

\* One run of the system by the pipeline: the body once for every matched
\* table, in query order; disabling the system does not end the iteration
\* that is under way.
RECURSIVE InitRun(_, _, _, _, _)
InitRun(st, k, cand, cv, faults) ==
    IF k > Len(CanvasTableSeq) THEN st
    ELSE LET t == CanvasTableSeq[k]
         IN InitRun(IF cand[t] >= 1
                    THEN InitRendererBody(st, t, cand[t], cv, faults)
                    ELSE st,
                    k + 1, cand, cv, faults)

\* The instance and surface creations of a run that can fail.
InitSites(cand) ==
    {<<what, t, i>> \in {"instance", "surface"} \X CanvasTables \X (1..MaxCanvases) :
        i <= cand[t]}

\* A tick in which the enabled system matches at least one table.
webgpu_init_renderer ==
    /\ init_system.enabled /\ ~init_system.crashed
    /\ \E t \in CanvasTables : candidates[t] >= 1
    /\ \E outcome \in NullWriteOutcomes :
       \E faults \in IF outcome = "proceed" THEN FaultSets(InitSites(candidates))
                     ELSE {{}} :
          IF outcome = "trap"
          THEN /\ init_system' = [init_system EXCEPT !.crashed = TRUE]
               /\ history' = [history EXCEPT !.init_runs = @ + 1]
          ELSE \E out \in {InitRun([system |-> init_system,
                                     runs |-> history.init_runs,
                                     requests |-> history.init_requests],
                                    1, candidates, DemoCanvas, faults)} :
                  /\ init_system' = out.system
                  /\ history' = [history EXCEPT !.init_runs = out.runs,
                                                !.init_requests = out.requests]
    /\ frame' = NoFrame
    /\ UNCHANGED << world, components, resource_call, geometry, webgpu_query, renderer, extras, canvas,
                    webgpu_error_occurred, handshake, destroyed, candidates >>

\* The requests the initialization system can have in flight.
RequestIds == {"adapter", "device"} \X (1..MaxCanvases) \X CanvasTables

\* webgpu_adapter_callback for a request of the initialization system; its
\* userdata is &renderer[i].
SlotAdapterCallback(req, success) ==
    /\ ~init_system.crashed
    /\ req \in init_system.requests /\ req[1] = "adapter"
    /\ init_system' =
          [init_system EXCEPT
              !.slots[req[2]].adapter = IF success THEN HANDLE ELSE @,
              !.requests = (@ \ {req})
                           \cup (IF success THEN {<<"device", req[2], req[3]>>}
                                 ELSE {})]
    /\ frame' = NoFrame
    /\ UNCHANGED << world, components, resource_call, geometry, webgpu_query, renderer, extras, canvas,
                    webgpu_error_occurred, handshake, destroyed, candidates, history >>

\* webgpu_device_callback for a request of the initialization system; every
\* device-level resource is created (Spec explores their failures).
SlotDeviceCallback(req, success) ==
    /\ ~init_system.crashed
    /\ req \in init_system.requests /\ req[1] = "device"
    /\ init_system' =
          [init_system EXCEPT
              !.slots[req[2]] = IF success THEN DeviceAcquired(@, {}) ELSE @,
              !.requests = @ \ {req}]
    /\ frame' = NoFrame
    /\ UNCHANGED << world, components, resource_call, geometry, webgpu_query, renderer, extras, canvas,
                    webgpu_error_occurred, handshake, destroyed, candidates, history >>

\* An entity with EcsCanvas and without WebGPURenderer appears in table t.
AddCanvas(t) ==
    /\ ~init_system.crashed
    /\ candidates[t] < MaxCanvases
    /\ candidates' = [candidates EXCEPT ![t] = @ + 1]
    /\ frame' = NoFrame
    /\ UNCHANGED << world, components, resource_call, geometry, webgpu_query, renderer, extras, canvas,
                    webgpu_error_occurred, handshake, destroyed, init_system, history >>

\* Such an entity is deleted.
RemoveCanvas(t) ==
    /\ ~init_system.crashed
    /\ candidates[t] > 0
    /\ candidates' = [candidates EXCEPT ![t] = @ - 1]
    /\ frame' = NoFrame
    /\ UNCHANGED << world, components, resource_call, geometry, webgpu_query, renderer, extras, canvas,
                    webgpu_error_occurred, handshake, destroyed, init_system, history >>

\* A world that imports the module and leaves the initialisation of the
\* renderer to the system.
NextInit ==
    \/ \E t \in CanvasTables : AddCanvas(t)
    \/ \E t \in CanvasTables : RemoveCanvas(t)
    \/ webgpu_init_renderer
    \/ \E req \in RequestIds, success \in BOOLEAN : SlotAdapterCallback(req, success)
    \/ \E req \in RequestIds, success \in BOOLEAN : SlotDeviceCallback(req, success)

InitOfSystem == Init /\ webgpu_query = HANDLE

SpecInit == InitOfSystem /\ [][NextInit]_vars

\* ------------------------------------------------------------ properties
\* The entities a shape query must report: a transform and the shape tag.
Matching(w, geometry_type) ==
    {e \in Entities : w[e].transform /\ geometry_type \in w[e].shapes}

ShapesPresent(w) == {g \in {Box, Rectangle} : Matching(w, g) # {}}

BatchTypes(batches) == [k \in 1..Len(batches) |-> batches[k].geometry_type]

DrawTypes(calls) ==
    LET draws == CallsNamed(calls, "DrawIndexed")
    IN [k \in 1..Len(draws) |-> draws[k][2]]

CatalogIndex(geometry_type) == IF geometry_type = Box THEN 1 ELSE 2

InCatalogOrder(types) ==
    \A i \in 1..Len(types), j \in 1..Len(types) :
        i < j => CatalogIndex(types[i]) < CatalogIndex(types[j])

\* C1: after a gather with a non-null query the batch list has one entry per
\* shape type that at least one entity carries together with a transform, and
\* no entry for a shape type nothing matches.
C1_BatchCompleteness ==
    frame.gathered =>
        /\ Len(frame.batches) = Cardinality(ShapesPresent(world))
        /\ \A k \in 1..Len(frame.batches) :
               frame.batches[k].geometry_type \in ShapesPresent(world)

\* A gather that yields the rectangle batch only, although an entity without a
\* transform carries the box tag.
C1_Witness ==
    /\ frame.gathered
    /\ Len(frame.batches) = 1
    /\ frame.batches[1].geometry_type = Rectangle
    /\ \E e \in Entities : ~world[e].transform /\ Box \in world[e].shapes

\* C2: an invocation of the render system while the device is null or the
\* error latch is set makes no GPU call and leaves every renderer field as it
\* was.
C2_NoOpWhenNotReady ==
    (frame.ran /\ (frame.device_null \/ frame.latched)) =>
        frame.calls = <<>> /\ frame.unchanged

\* A latched invocation on a ready device while the canvas has another size
\* than the renderer.
C2_Witness ==
    /\ frame.ran /\ frame.latched /\ ~frame.device_null
    /\ frame.table = MainTable
    /\ canvas.width # renderer.width

\* C3: the error latch is one-way: the error callback sets it whatever the
\* error type, no step clears it, and an invocation of the render system made
\* while it is set makes no GPU call.
C3_LatchOneWay ==
    [][ /\ history'.error_reported => webgpu_error_occurred'
        /\ webgpu_error_occurred => webgpu_error_occurred'
        /\ (webgpu_error_occurred /\ frame'.ran) => frame'.calls = <<>> ]_vars

\* A halted invocation after the error callback has run and after the renderer
\* has already completed a frame.
C3_Witness ==
    /\ history.error_reported
    /\ frame.ran /\ frame.path = "halted"
    /\ renderer.frame_index > 0

\* C4: whenever a second renderer instance exists, every invocation of the
\* render system returns without gathering, drawing or submitting and without
\* changing the renderer.
C4_SecondRendererSkipsAll ==
    (frame.ran /\ extras[MainTable] + extras[OtherTable] >= 1) =>
        /\ ~frame.gathered
        /\ Len(CallsNamed(frame.calls, "DrawIndexed")) = 0
        /\ Len(CallsNamed(frame.calls, "QueueSubmit")) = 0
        /\ frame.unchanged

\* C5: the batch list and the draws are in catalog order (box before
\* rectangle), and a frame that follows a frame over the same world has the
\* same sequence of batch shape types.
C5_CatalogOrder ==
    frame.gathered =>
        /\ InCatalogOrder(BatchTypes(frame.batches))
        /\ InCatalogOrder(DrawTypes(frame.calls))
        /\ history.prev_gathered => BatchTypes(frame.batches) = history.prev_types

\* Two consecutive gathering frames, the second with both batches drawn.
C5_Witness ==
    /\ frame.gathered /\ history.prev_gathered
    /\ Len(frame.batches) = 2
    /\ Len(DrawTypes(frame.calls)) = 2

\* C6: the instance_count of every batch is the number of entities that carry
\* a transform and the batch's shape tag, over all chunks.
C6_InstanceCount ==
    frame.gathered =>
        \A k \in 1..Len(frame.batches) :
            frame.batches[k].instance_count =
                Cardinality(Matching(world, frame.batches[k].geometry_type))

\* A batch of two instances that come from two different tables.
C6_Witness ==
    /\ frame.gathered
    /\ \E k \in 1..Len(frame.batches) :
           /\ frame.batches[k].instance_count = 2
           /\ world[frame.batches[k].order[1]] # world[frame.batches[k].order[2]]

\* C7: a box batch has vertex_count 24 and index_count 36, a rectangle batch 4
\* and 6, and every draw uses the index_count of its shape.
C7_CatalogCounts ==
    frame.gathered =>
        /\ \A k \in 1..Len(frame.batches) :
               LET b == frame.batches[k]
               IN IF b.geometry_type = Box
                  THEN b.vertex_count = 24 /\ b.index_count = 36
                  ELSE b.vertex_count = 4 /\ b.index_count = 6
        /\ \A k \in 1..Len(frame.calls) :
               frame.calls[k][1] = "DrawIndexed" =>
                   frame.calls[k][3] = IF frame.calls[k][2] = Box THEN 36 ELSE 6

\* A frame that draws a box batch and a rectangle batch.
C7_Witness ==
    /\ frame.gathered
    /\ \E k \in 1..Len(frame.calls) :
           frame.calls[k][1] = "DrawIndexed" /\ frame.calls[k][2] = Box
    /\ \E k \in 1..Len(frame.calls) :
           frame.calls[k][1] = "DrawIndexed" /\ frame.calls[k][2] = Rectangle

\* C8: with one renderer, the device ready, the latch clear, the surface
\* texture acquired, its view created and no entity matching a shape type, the
\* invocation gathers no batch and draws nothing, but creates the encoder,
\* begins and ends the pass and finishes and submits one command buffer.
C8_EmptyWorldStillSubmits ==
    ( /\ frame.ran /\ frame.count = 1
      /\ ~frame.device_null /\ ~frame.latched
      /\ frame.texture /\ frame.view
      /\ ShapesPresent(world) = {} ) =>
        /\ frame.batches = <<>>
        /\ Len(CallsNamed(frame.calls, "DrawIndexed")) = 0
        /\ Len(CallsNamed(frame.calls, "DeviceCreateCommandEncoder")) = 1
        /\ Len(CallsNamed(frame.calls, "CommandEncoderBeginRenderPass")) = 1
        /\ Len(CallsNamed(frame.calls, "RenderPassEncoderEnd")) = 1
        /\ Len(CallsNamed(frame.calls, "CommandEncoderFinish")) = 1
        /\ Len(CallsNamed(frame.calls, "QueueSubmit")) = 1

\* A gathering frame over a world in which nothing matches.
C8_Witness ==
    /\ frame.ran /\ frame.gathered
    /\ ShapesPresent(world) = {}
    /\ Len(CallsNamed(frame.calls, "QueueSubmit")) = 1

\* C8 as stated: the surface texture being available is the only condition on
\* the render target.
C8_AsStated ==
    ( /\ frame.ran
      /\ ~frame.device_null /\ ~frame.latched
      /\ frame.texture
      /\ ShapesPresent(world) = {} ) =>
        /\ frame.batches = <<>>
        /\ Len(CallsNamed(frame.calls, "DrawIndexed")) = 0
        /\ Len(CallsNamed(frame.calls, "DeviceCreateCommandEncoder")) = 1
        /\ Len(CallsNamed(frame.calls, "CommandEncoderBeginRenderPass")) = 1
        /\ Len(CallsNamed(frame.calls, "RenderPassEncoderEnd")) = 1
        /\ Len(CallsNamed(frame.calls, "CommandEncoderFinish")) = 1
        /\ Len(CallsNamed(frame.calls, "QueueSubmit")) = 1

\* C9: an entity with a transform and a shape tag but no colour gets (1, 1, 1)
\* in the batch and in its packed record; an entity that has a colour is never
\* written by the default branch, and one that owns its colour gets it.
C9_MissingColorIsWhite ==
    frame.gathered =>
        \A k \in 1..Len(frame.batches) :
            LET b == frame.batches[k]
            IN \A i \in 1..Len(b.order) :
                 LET kind == world[b.order[i]].color
                     at == FloatsPerInstance * (i - 1)
                 IN /\ kind = "none" =>
                          /\ b.colors[i] = Rgb(10, 10, 10)
                          /\ b.instance_data # <<>> =>
                                 /\ b.instance_data[at + 17] = 10
                                 /\ b.instance_data[at + 18] = 10
                                 /\ b.instance_data[at + 19] = 10
                    /\ kind # "none" => i \notin b.defaulted
                    /\ kind = "own" => b.colors[i] = OwnColor(b.order[i])

\* A batch with an uploaded instance buffer that holds an entity without a
\* colour next to one that owns a colour other than white.
C9_Witness ==
    /\ frame.gathered
    /\ \E k \in 1..Len(frame.batches) :
           LET b == frame.batches[k]
           IN /\ b.instance_data # <<>>
              /\ \E i \in 1..Len(b.order) : world[b.order[i]].color = "none"
              /\ \E i \in 1..Len(b.order) :
                     /\ world[b.order[i]].color = "own"
                     /\ b.colors[i] # White

\* C10: after webgpu_populate_geometry_buffers every entity of a chunk with a
\* shared colour term has the shared colour in color_data, and every entity of
\* a chunk with a per-entity colour term has its own colour.
C10_SharedVsOwnColor ==
    \A g \in {Box, Rectangle} :
        /\ Len(geometry[g].color_data) = Len(geometry[g].order)
        /\ \A i \in 1..Len(geometry[g].order) :
               LET e == geometry[g].order[i]
               IN /\ world[e].color = "shared" =>
                        geometry[g].color_data[i] = SharedColor
                  /\ world[e].color = "own" =>
                        geometry[g].color_data[i] = OwnColor(e)

\* A populated box cache that holds two entities of one shared-colour chunk.
C10_Witness ==
    /\ \E g \in {Box, Rectangle} :
           \E i \in 1..Len(geometry[g].order), j \in 1..Len(geometry[g].order) :
               /\ i < j
               /\ world[geometry[g].order[i]].color = "shared"
               /\ world[geometry[g].order[j]].color = "shared"
    /\ geometry[Box].instance_count >= 2

\* C11: an instance buffer of N instances holds exactly N * 19 floats
\* (N * 76 bytes), and reading record i through the pipeline's instance
\* layout yields transform i and colour i of the batch, for every i.
C11_InstanceLayoutRoundTrip ==
    frame.gathered =>
        \A k \in 1..Len(frame.batches) :
            LET b == frame.batches[k]
            IN ~IsNull(b.instance_buffer) =>
                 /\ Len(b.instance_data) = b.instance_count * 19
                 /\ << "DeviceCreateBuffer", << b.geometry_type, "instance" >>,
                       b.instance_count * 76 >>
                        \in {frame.calls[c] : c \in 1..Len(frame.calls)}
                 /\ \A i \in 1..b.instance_count :
                        /\ ReadInstance(b.instance_data, i).transform = b.transforms[i]
                        /\ ReadInstance(b.instance_data, i).color = b.colors[i]

\* An uploaded instance buffer of two records that differ in transform and in
\* colour.
C11_Witness ==
    /\ frame.gathered
    /\ \E k \in 1..Len(frame.batches) :
           LET b == frame.batches[k]
           IN /\ ~IsNull(b.instance_buffer)
              /\ b.instance_count = 2
              /\ b.transforms[1] # b.transforms[2]
              /\ b.colors[1] # b.colors[2]

\* C12: after gather every batch of the list has a non-zero instance count
\* and non-null vertex and index buffers (a shape whose buffer creation failed
\* has no batch).
C12_BatchesResolved ==
    frame.gathered =>
        \A k \in 1..Len(frame.batches) :
            /\ frame.batches[k].instance_count > 0
            /\ ~IsNull(frame.batches[k].vertex_buffer)
            /\ ~IsNull(frame.batches[k].index_buffer)

\* C13: a frame that aborts creates no command encoder, begins no render
\* pass, gathers no batch, submits and presents nothing and leaves frame_index
\* as it was; an invocation that follows an aborted one acquires the surface
\* texture again.
C13_AbortedFrame ==
    [][ /\ (frame'.ran /\ frame'.path \in AbortPaths) =>
              /\ Len(CallsNamed(frame'.calls, "DeviceCreateCommandEncoder")) = 0
              /\ Len(CallsNamed(frame'.calls, "CommandEncoderBeginRenderPass")) = 0
              /\ Len(CallsNamed(frame'.calls, "QueueSubmit")) = 0
              /\ Len(CallsNamed(frame'.calls, "SurfacePresent")) = 0
              /\ frame'.batches = <<>> /\ ~frame'.gathered
              /\ renderer'.frame_index = renderer.frame_index
        /\ (frame.ran /\ frame.path \in AbortPaths /\ frame'.ran) =>
              /\ frame'.calls # <<>>
              /\ frame'.calls[1] = << "SurfaceGetCurrentTexture" >> ]_vars

\* Two aborted frames in a row, after a frame that completed, over a world
\* with something to draw.
C13_Witness ==
    /\ frame.ran /\ frame.path \in AbortPaths
    /\ history.prev_aborted
    /\ renderer.frame_index > 0
    /\ ShapesPresent(world) # {}

\* The calls webgpu_render_system makes itself in a frame that completes, in
\* source order: four before the gather, seven after the draws.
FramePrologue ==
    << "SurfaceGetCurrentTexture", "TextureCreateView",
       "DeviceCreateCommandEncoder", "CommandEncoderBeginRenderPass" >>

FrameEpilogue ==
    << "RenderPassEncoderEnd", "CommandEncoderFinish", "QueueSubmit",
       "TextureViewRelease", "CommandBufferRelease",
       "RenderPassEncoderRelease", "CommandEncoderRelease" >>

\* The calls of the gather, of the uniform upload and of the draw loop.
GatherCallNames ==
    {"DeviceCreateBuffer", "DeviceCreateShaderModule",
     "DeviceCreateRenderPipeline", "ShaderModuleRelease"}

UploadCallNames == {"QueueWriteBuffer"}

PassCallNames ==
    {"SetPipeline", "SetBindGroup", "SetVertexBuffer", "SetIndexBuffer",
     "DrawIndexed"}

\* The phase a call of the middle of the frame belongs to.
FramePhase(call) ==
    IF call[1] \in GatherCallNames THEN 1
    ELSE IF call[1] \in UploadCallNames THEN 2
    ELSE IF call[1] \in PassCallNames THEN 3
    ELSE 0

\* The call log of one completed frame is in frame order.
InFrameOrder(r, calls) ==
    LET n == Len(calls)
        p == Len(FramePrologue)
        e == Len(FrameEpilogue)
    IN /\ n >= p + e
       /\ \A i \in 1..p : calls[i][1] = FramePrologue[i]
       /\ \A i \in 1..e : calls[n - e + i][1] = FrameEpilogue[i]
       /\ \A i \in (p + 1)..(n - e) : FramePhase(calls[i]) \in 1..3
       /\ \A i, j \in (p + 1)..(n - e) :
              i < j => FramePhase(calls[i]) <= FramePhase(calls[j])
       /\ Len(CallsNamed(calls, "QueueWriteBuffer"))
              = (IF IsNull(r.camera_uniform_buffer) THEN 0 ELSE 1)
                + (IF IsNull(r.light_uniform_buffer) THEN 0 ELSE 1)

\* C14: a frame that does not abort makes its calls in the order acquire,
\* view, encoder, begin pass, gather, uniform uploads, draws, end pass, finish,
\* submit, the four releases, each of the fixed calls once, and then counts
\* the frame; so every draw lies between begin and end and the submit follows
\* the end of the pass.
C14_FrameOrder ==
    [][ (frame'.ran /\ frame'.path = "frame") =>
            /\ InFrameOrder(renderer, frame'.calls)
            /\ renderer'.frame_index = renderer.frame_index + 1 ]_vars

\* A completed frame that gathered, uploaded both uniforms and drew two
\* batches.
C14_Witness ==
    /\ frame.ran /\ frame.path = "frame" /\ frame.gathered
    /\ Len(CallsNamed(frame.calls, "QueueWriteBuffer")) = 2
    /\ Len(CallsNamed(frame.calls, "DrawIndexed")) = 2
    /\ Len(CallsNamed(frame.calls, "DeviceCreateBuffer")) = 6

\* The fields of the renderer that hold a GPU handle the renderer owns.
OwnedHandles ==
    {"instance", "adapter", "device", "queue", "surface", "depth_texture",
     "depth_texture_view", "default_pipeline", "camera_uniform_buffer",
     "light_uniform_buffer", "camera_bind_group", "light_bind_group",
     "camera_layout", "light_layout"}

\* How often the destructor released the handle of a field.
ReleaseCount(released, field) ==
    Len(SelectSeq(released, LAMBDA c : c[2] = field))

\* C15: once the renderer is destroyed, every GPU handle it held was released
\* exactly once.
C15_EveryHandleReleasedOnce ==
    destroyed =>
        \A field \in OwnedHandles :
            ~IsNull(renderer[field]) => ReleaseCount(history.released, field) = 1

\* C16: every vertex, index and instance buffer created by a frame's gather
\* is released: no frame ends with a created buffer that was not released and
\* that nothing refers to any more.
C16_PerFrameBuffersReleased == ~history.leaked

\* C19: whatever the interleaving of ticks and completions, and whether a
\* completion arrives inside the request call or later, the device is
\* requested only by a successful adapter completion that has stored the
\* adapter, the adapter only with an instance, and a stored device comes with
\* adapter, instance and queue.
C19_InitOrder ==
    /\ ~IsNull(renderer.device) =>
           /\ ~IsNull(renderer.adapter)
           /\ ~IsNull(renderer.instance)
           /\ ~IsNull(renderer.queue)
           /\ handshake.device = "done"
    /\ handshake.device # "none" =>
           handshake.adapter = "done" /\ ~IsNull(renderer.adapter)
    /\ handshake.adapter # "none" => ~IsNull(renderer.instance)

\* The device is stored and frames have been drawn with it.
C19_Witness ==
    /\ ~IsNull(renderer.device) /\ handshake.device = "done"
    /\ renderer.frame_index > 0

\* C17: the body of the initialization system runs at most once in the life
\* of the process.
C17_BodyRunsAtMostOnce == history.init_runs <= 1

\* C18: the initialization system initialises at most one renderer instance
\* and issues at most one adapter request, however many entities qualify
\* when it first runs.
C18_AtMostOneRendererInitialised ==
    /\ Len(init_system.slots) <= 1
    /\ history.init_requests <= 1

\* C20: a renderer the initialization system left without instance or without
\* surface has no adapter or device request in flight and neither adapter nor
\* device.
C20_RequestNeedsInstanceAndSurface ==
    \A i \in 1..Len(init_system.slots) :
        LET r == init_system.slots[i]
        IN (IsNull(r.instance) \/ IsNull(r.surface)) =>
              /\ \A req \in init_system.requests : req[2] # i
              /\ IsNull(r.adapter)
              /\ IsNull(r.device)

\* C21: after a failed adapter completion the renderer holds no adapter and
\* no device was requested; after a failed device completion device and queue
\* are null and no error callback is installed; from then on an invocation of
\* the frame pipeline for the renderer makes no GPU call and changes nothing.
C21_FailedHandshakeHalts ==
    /\ handshake.adapter = "failed" =>
           /\ IsNull(renderer.adapter) /\ IsNull(renderer.device)
           /\ handshake.device = "none"
    /\ handshake.device = "failed" =>
           /\ IsNull(renderer.device) /\ IsNull(renderer.queue)
           /\ ~history.error_callback_installed
    /\ ("failed" \in {handshake.adapter, handshake.device}
        /\ frame.ran /\ frame.table = MainTable) =>
           /\ frame.calls = <<>> /\ frame.unchanged
           /\ ~frame.gathered /\ frame.batches = <<>>

\* The frame pipeline ran alone on the renderer's table after the device
\* request had failed.
C21_Witness ==
    /\ handshake.device = "failed"
    /\ frame.ran /\ frame.table = MainTable /\ frame.count = 1

\* << child, parent >>: the object a handle of the renderer was created from.
CreatedFrom ==
    { <<"depth_texture_view", "depth_texture">>, <<"depth_texture", "device">>,
      <<"queue", "device">>, <<"device", "adapter">>, <<"adapter", "instance">>,
      <<"surface", "instance">> }

\* The positions in the destructor's log at which a field is released.
ReleasedAt(released, field) ==
    {k \in 1..Len(released) : released[k][2] = field}

C23_CanvasResync ==
    [][ (frame'.ran /\ frame'.path \in AbortPaths \cup {"frame"}) =>
            /\ renderer'.width = canvas.width
            /\ renderer'.height = canvas.height
            /\ IF renderer.width # canvas.width \/ renderer.height # canvas.height
               THEN renderer'.needs_resize
               ELSE renderer'.needs_resize = renderer.needs_resize ]_vars

\* A frame completed after the canvas had changed its height only.
C23_Witness ==
    /\ frame.ran /\ frame.path = "frame"
    /\ canvas.width = DemoCanvas.width /\ canvas.height # DemoCanvas.height
    /\ renderer.height = canvas.height /\ renderer.needs_resize

CompleteBatches(batches) ==
    SelectSeq(batches, LAMBDA b : /\ ~IsNull(b.pipeline)
                                  /\ ~IsNull(b.vertex_buffer)
                                  /\ ~IsNull(b.index_buffer)
                                  /\ ~IsNull(b.instance_buffer))

\* The render-pass commands of a call log, in order.
PassCommands(calls) == SelectSeq(calls, LAMBDA c : c[1] \in PassCallNames)

\* The binds that precede the draw of a batch of the given type: the commands
\* of the pass between the draw before it and this one.
BindsBeforeDraw(pass, k) ==
    LET draws == {i \in 1..Len(pass) : pass[i][1] = "DrawIndexed"}
        at == CHOOSE i \in draws : Cardinality({j \in draws : j <= i}) = k
        from == IF k = 1 THEN 1
                ELSE 1 + CHOOSE i \in draws : Cardinality({j \in draws : j <= i}) = k - 1
    IN SubSeq(pass, from, at - 1)

\* C25: the executor draws every batch that holds pipeline, vertex, index and
\* instance buffer exactly once, with its index and instance counts, after
\* binding its pipeline, its vertex buffer at slot 0, its instance buffer at
\* slot 1 and its index buffer; other batches produce no command.
C25_OneDrawPerCompleteBatch ==
    (frame.ran /\ frame.path = "frame") =>
        LET complete == CompleteBatches(frame.batches)
            pass == PassCommands(frame.calls)
            draws == CallsNamed(pass, "DrawIndexed")
        IN /\ Len(draws) = Len(complete)
           /\ \A k \in 1..Len(complete) :
                 LET b == complete[k]
                     binds == BindsBeforeDraw(pass, k)
                     Without(name) == SelectSeq(binds, LAMBDA c : c[1] # name)
                 IN /\ draws[k] = << "DrawIndexed", b.geometry_type,
                                     b.index_count, b.instance_count >>
                    /\ binds[1] = << "SetPipeline", b.geometry_type >>
                    /\ Without("SetBindGroup") =
                         << << "SetPipeline", b.geometry_type >>,
                            << "SetVertexBuffer", 0, b.geometry_type, "vertex_buffer" >>,
                            << "SetVertexBuffer", 1, b.geometry_type, "instance_buffer" >>,
                            << "SetIndexBuffer", b.geometry_type, "index_buffer" >> >>
           /\ (Len(complete) = 0 => pass = <<>>)
           /\ (Len(complete) > 0 => pass[Len(pass)][1] = "DrawIndexed")

\* A frame with a box batch and a rectangle batch of which one lacks a buffer:
\* one draw.
C25_Witness ==
    /\ frame.ran /\ frame.path = "frame"
    /\ Len(frame.batches) = 2
    /\ Len(CompleteBatches(frame.batches)) = 1
    /\ Len(CallsNamed(frame.calls, "DrawIndexed")) = 1

HeapPositions(heap, what, geometry_type, array) ==
    {k \in 1..Len(heap) : heap[k] = <<what, geometry_type, array>>}

\* The batch arrays a frame can allocate.
FrameArrays ==
    {<<geometry_types[i], BatchArrays[k]>> :
        i \in 1..Len(geometry_types), k \in 1..Len(BatchArrays)}

CreateBufferNoRelease(device, size, data, created, mapped) ==
    IF IsNull(device) \/ size = 0 THEN [buffer |-> NULL, calls |-> <<>>]
    ELSE IF ~created
    THEN [buffer |-> NULL, calls |-> << <<"DeviceCreateBuffer", size, data>> >>]
    ELSE IF ~data
    THEN [buffer |-> HANDLE, calls |-> << <<"DeviceCreateBuffer", size, data>> >>]
    ELSE IF mapped
    THEN [buffer |-> HANDLE,
          calls |-> << <<"DeviceCreateBuffer", size, data>>,
                       <<"BufferGetMappedRange", size>>,
                       <<"memcpy", size>>,
                       <<"BufferUnmap">> >>]
    ELSE [buffer |-> NULL,
          calls |-> << <<"DeviceCreateBuffer", size, data>>,
                       <<"BufferGetMappedRange", size>> >>]

\* webgpu_create_buffer(device, size, usage, data) step by step: the handle it
\* returns and the calls it makes.  data: initial data is supplied (the
\* descriptor's mappedAtCreation); created: wgpuDeviceCreateBuffer returns a
\* buffer; mapped: wgpuBufferGetMappedRange returns a range.
CreateBuffer(device, size, data, created, mapped) ==
    IF IsNull(device) \/ size = 0 THEN [buffer |-> NULL, calls |-> <<>>]
    ELSE IF ~created
    THEN [buffer |-> NULL, calls |-> << <<"DeviceCreateBuffer", size, data>> >>]
    ELSE IF ~data
    THEN [buffer |-> HANDLE, calls |-> << <<"DeviceCreateBuffer", size, data>> >>]
    ELSE IF mapped
    THEN [buffer |-> HANDLE,
          calls |-> << <<"DeviceCreateBuffer", size, data>>,
                       <<"BufferGetMappedRange", size>>,
                       <<"memcpy", size>>,
                       <<"BufferUnmap">> >>]
    ELSE [buffer |-> NULL,
          calls |-> << <<"DeviceCreateBuffer", size, data>>,
                       <<"BufferGetMappedRange", size>>,
                       <<"BufferRelease">> >>]

\* The objects webgpu_create_geometry_pipeline creates, in creation order.
PipelineObjects ==
    << "camera_bind_group_layout", "light_bind_group_layout", "pipeline_layout",
       "pipeline" >>

\* The ways a wgpu...Release call on a NULL handle can end: the call traps, or
\* it does nothing.
NullReleaseOutcomes == {"trap", "ignored"}

\* The handle a creation call yields.
Created(object, faults) == IF object \in faults THEN NULL ELSE HANDLE

\* The three release calls "Cleanup intermediate objects" makes, in order, up
\* to and including the first one that traps on a NULL handle.
RECURSIVE ReleaseLayouts(_, _, _)
ReleaseLayouts(k, faults, null_release) ==
    IF k > 3 THEN [calls |-> <<>>, trapped |-> FALSE]
    ELSE LET handle == Created(PipelineObjects[k], faults)
             call == <<"Release", PipelineObjects[k], handle>>
         IN IF IsNull(handle) /\ null_release = "trap"
            THEN [calls |-> <<call>>, trapped |-> TRUE]
            ELSE LET rest == ReleaseLayouts(k + 1, faults, null_release)
                 IN [calls |-> <<call>> \o rest.calls, trapped |-> rest.trapped]

\* The four creation calls, which the function makes without looking at the
\* result of the one before.
CreatePipelineObjects(faults) ==
    [k \in 1..Len(PipelineObjects) |->
        <<"Create", PipelineObjects[k], Created(PipelineObjects[k], faults)>>]

\* A variant of CreateGeometryPipeline that returns as soon as the pipeline
\* creation has failed.
CreateGeometryPipelineEarlyReturn(device, vertex_shader, fragment_shader, faults, null_release) ==
    IF IsNull(device) \/ IsNull(vertex_shader) \/ IsNull(fragment_shader)
    THEN [pipeline |-> NULL, calls |-> <<>>, returned |-> TRUE]
    ELSE IF IsNull(Created("pipeline", faults))
    THEN [pipeline |-> NULL, calls |-> CreatePipelineObjects(faults),
          returned |-> TRUE]
    ELSE LET releases == ReleaseLayouts(1, faults, null_release)
         IN [pipeline |-> IF releases.trapped THEN NULL ELSE HANDLE,
             calls |-> CreatePipelineObjects(faults) \o releases.calls,
             returned |-> ~releases.trapped]

\* webgpu_create_geometry_pipeline(device, vertex_shader, fragment_shader) step
\* by step: the pipeline it returns, the calls it makes, and whether it returns
\* at all.  faults: the creation calls that yield NULL.
CreateGeometryPipeline(device, vertex_shader, fragment_shader, faults, null_release) ==
    IF IsNull(device) \/ IsNull(vertex_shader) \/ IsNull(fragment_shader)
    THEN [pipeline |-> NULL, calls |-> <<>>, returned |-> TRUE]
    ELSE LET releases == ReleaseLayouts(1, faults, null_release)
         IN [pipeline |-> IF releases.trapped THEN NULL
                          ELSE Created("pipeline", faults),
             calls |-> CreatePipelineObjects(faults) \o releases.calls,
             returned |-> ~releases.trapped]

\* The buffer sizes the callers ask for: instance buffers, the two uniform
\* buffers, and zero.
BufferSizes ==
    {k * WEBGPU_BYTES_PER_INSTANCE : k \in 0..MaxEntities}
    \cup {CameraUniformBytes, LightUniformBytes}

\* A call of webgpu_create_buffer.  created and mapped are results of calls
\* that are only made past the parameter check, resp. with initial data on a
\* created buffer.
Call_webgpu_create_buffer(device, size, data, created, mapped) ==
    /\ created => ~(IsNull(device) \/ size = 0)
    /\ mapped => (created /\ data)
    /\ \E out \in {CreateBuffer(device, size, data, created, mapped)} :
           resource_call' = [op |-> "webgpu_create_buffer", device |-> device,
                             size |-> size, data |-> data, created |-> created,
                             mapped |-> mapped, buffer |-> out.buffer,
                             calls |-> out.calls]
    /\ UNCHANGED << world, components, geometry, webgpu_query, renderer, extras,
                    canvas, webgpu_error_occurred, handshake, destroyed,
                    candidates, init_system, frame, history >>

\* A call of webgpu_update_buffer with data.
Call_webgpu_update_buffer(device, queue, buffer, what, size) ==
    /\ resource_call' = [op |-> "webgpu_update_buffer", device |-> device,
                         queue |-> queue, buffer |-> buffer, size |-> size,
                         calls |-> webgpu_update_buffer(device, queue, buffer,
                                                        what, size)]
    /\ UNCHANGED << world, components, geometry, webgpu_query, renderer, extras,
                    canvas, webgpu_error_occurred, handshake, destroyed,
                    candidates, init_system, frame, history >>

\* A call of webgpu_create_geometry_pipeline.  faults and null_release only
\* matter past the parameter check, null_release only when a layout is NULL.
Call_webgpu_create_geometry_pipeline(device, vertex_shader, fragment_shader, faults, null_release) ==
    /\ (IsNull(device) \/ IsNull(vertex_shader) \/ IsNull(fragment_shader))
           => faults = {}
    /\ (faults \ {"pipeline"} = {}) => null_release = "ignored"
    /\ \E out \in {CreateGeometryPipeline(device, vertex_shader, fragment_shader,
                                          faults, null_release)} :
           resource_call' = [op |-> "webgpu_create_geometry_pipeline",
                             device |-> device, vertex_shader |-> vertex_shader,
                             fragment_shader |-> fragment_shader,
                             faults |-> faults, pipeline |-> out.pipeline,
                             min_binding_size |->
                                 [which \in UniformKinds |->
                                     PipelineMinBindingSize(which)],
                             calls |-> out.calls, returned |-> out.returned]
    /\ UNCHANGED << world, components, geometry, webgpu_query, renderer, extras,
                    canvas, webgpu_error_occurred, handshake, destroyed,
                    candidates, init_system, frame, history >>

\* A call of webgpu_create_camera_uniform_buffer or
\* webgpu_create_light_uniform_buffer (no initial data).
Call_webgpu_create_uniform_buffer(which, device, created) ==
    /\ created => ~IsNull(device)
    /\ \E out \in {CreateBuffer(device, UniformBufferSize(which), FALSE, created,
                                FALSE)} :
           resource_call' = [op |-> "webgpu_create_uniform_buffer", which |-> which,
                             device |-> device, buffer |-> out.buffer,
                             calls |-> out.calls]
    /\ UNCHANGED << world, components, geometry, webgpu_query, renderer, extras,
                    canvas, webgpu_error_occurred, handshake, destroyed,
                    candidates, init_system, frame, history >>

\* A call of webgpu_create_camera_bind_group or webgpu_create_light_bind_group:
\* one wgpuDeviceCreateBindGroup call, whatever the arguments.
Call_webgpu_create_bind_group(which, device, layout, uniform_buffer, ok) ==
    /\ resource_call' = [op |-> "webgpu_create_bind_group", which |-> which,
                         device |-> device, layout |-> layout,
                         uniform_buffer |-> uniform_buffer,
                         bind_group |-> IF IsNull(device) THEN NULL
                                        ELSE CreateBindGroup(layout, ok),
                         calls |-> << <<"DeviceCreateBindGroup", which,
                                        BindGroupEntrySize(which)>> >>]
    /\ UNCHANGED << world, components, geometry, webgpu_query, renderer, extras,
                    canvas, webgpu_error_occurred, handshake, destroyed,
                    candidates, init_system, frame, history >>

\* A call of update_camera_uniforms or update_light_uniforms on a renderer
\* with the given device, queue and uniform buffers.
Call_update_uniforms(which, device, queue, buffer) ==
    /\ \E r \in {[ZeroRenderer EXCEPT !.device = device, !.queue = queue,
                                      !.camera_uniform_buffer = buffer,
                                      !.light_uniform_buffer = buffer]} :
           resource_call' = [op |-> "update_uniforms", which |-> which,
                             device |-> device, queue |-> queue, buffer |-> buffer,
                             calls |-> IF which = "camera"
                                       THEN update_camera_uniforms(r)
                                       ELSE update_light_uniforms(r)]
    /\ UNCHANGED << world, components, geometry, webgpu_query, renderer, extras,
                    canvas, webgpu_error_occurred, handshake, destroyed,
                    candidates, init_system, frame, history >>

\* The creation sites of create_geometry_pipeline (render_system.c).
WrapperSites == {<<"shader", "vertex">>, <<"shader", "fragment">>, <<"pipeline", "default">>}

\* A call of create_geometry_pipeline (render_system.c) on a renderer with the
\* given device: the two shader modules it obtained, the GPU calls it made
\* and the pipeline it returned.
Call_create_geometry_pipeline(device, faults) ==
    /\ IsNull(device) => faults = {}
    /\ resource_call' = [op |-> "create_geometry_pipeline", device |-> device,
                         faults |-> faults,
                         modules |->
                             [stage \in {"vertex", "fragment"} |->
                                 webgpu_create_shader_module(device,
                                     <<"shader", stage>> \notin faults)],
                         pipeline |-> create_geometry_pipeline(device, faults),
                         calls |-> PipelineCalls(device, faults)]
    /\ UNCHANGED << world, components, geometry, webgpu_query, renderer, extras,
                    canvas, webgpu_error_occurred, handshake, destroyed,
                    candidates, init_system, frame, history >>

NextResources ==
    \/ \E device \in {NULL, HANDLE}, faults \in SUBSET WrapperSites :
          Call_create_geometry_pipeline(device, faults)
    \/ \E device \in {NULL, HANDLE}, size \in BufferSizes, data \in BOOLEAN,
          created \in BOOLEAN, mapped \in BOOLEAN :
          Call_webgpu_create_buffer(device, size, data, created, mapped)
    \/ \E device \in {NULL, HANDLE}, queue \in {NULL, HANDLE},
          buffer \in {NULL, HANDLE}, what \in {"camera", "light"},
          size \in BufferSizes :
          Call_webgpu_update_buffer(device, queue, buffer, what, size)
    \/ \E device \in {NULL, HANDLE}, vertex_shader \in {NULL, HANDLE},
          fragment_shader \in {NULL, HANDLE},
          faults \in SUBSET {PipelineObjects[k] : k \in 1..Len(PipelineObjects)},
          null_release \in NullReleaseOutcomes :
          Call_webgpu_create_geometry_pipeline(device, vertex_shader,
              fragment_shader, faults, null_release)
    \/ \E which \in UniformKinds, device \in {NULL, HANDLE}, created \in BOOLEAN :
          Call_webgpu_create_uniform_buffer(which, device, created)
    \/ \E which \in UniformKinds, device \in {NULL, HANDLE},
          layout \in {NULL, HANDLE}, uniform_buffer \in {NULL, HANDLE},
          ok \in BOOLEAN :
          Call_webgpu_create_bind_group(which, device, layout, uniform_buffer, ok)
    \/ \E which \in UniformKinds, device \in {NULL, HANDLE},
          queue \in {NULL, HANDLE}, buffer \in {NULL, HANDLE} :
          Call_update_uniforms(which, device, queue, buffer)

\* The resource manager taken alone: any of its functions, called with any
\* arguments, in any order.
InitResources == Init /\ webgpu_query = NULL

SpecResources == InitResources /\ [][NextResources]_vars

\* ------------------------------------------------------------------ C28
\* C28: webgpu_create_buffer makes no call and returns NULL when device is NULL
\* or size is 0; with initial data and no mapped range it releases the buffer
\* it created and returns NULL; a buffer returned for initial data has been
\* unmapped after the copy; whenever it returns NULL every buffer it created
\* has been released, and a buffer it returns has not been released.
C28_CreateBufferFailurePaths ==
    resource_call.op = "webgpu_create_buffer" =>
        LET c == resource_call
            made == Len(CallsNamed(c.calls, "DeviceCreateBuffer"))
            released == Len(CallsNamed(c.calls, "BufferRelease"))
            unmapped == Len(CallsNamed(c.calls, "BufferUnmap"))
            live == (IF c.created THEN made ELSE 0) - released
        IN /\ (IsNull(c.device) \/ c.size = 0) =>
                  (IsNull(c.buffer) /\ c.calls = <<>>)
           /\ (c.created /\ c.data /\ ~c.mapped) =>
                  (IsNull(c.buffer) /\ made = 1 /\ released = 1
                   /\ c.calls[Len(c.calls)] = <<"BufferRelease">>)
           /\ (~IsNull(c.buffer) /\ c.data) =>
                  (unmapped = 1 /\ c.calls[Len(c.calls)] = <<"BufferUnmap">>)
           /\ live = (IF IsNull(c.buffer) THEN 0 ELSE 1)
           /\ made <= 1

\* A call with initial data whose buffer was created but could not be mapped.
C28_Witness ==
    /\ resource_call.op = "webgpu_create_buffer"
    /\ resource_call.created /\ resource_call.data /\ ~resource_call.mapped
    /\ IsNull(resource_call.buffer)
    /\ Len(resource_call.calls) = 3

\* ------------------------------------------------------------------ C29
\* The positions of the calls << what, object, HANDLE >> in a call log.
ObjectCalls(calls, what, object) ==
    {k \in 1..Len(calls) : calls[k] = <<what, object, HANDLE>>}

\* C29: webgpu_create_geometry_pipeline makes no call and returns NULL when the
\* device or a shader module is NULL; otherwise, when it returns, each
\* bind-group layout and the pipeline layout it created has been released
\* exactly once, after the pipeline creation call, whether that call yielded a
\* pipeline or not, and it returns NULL exactly when that call yielded none.
C29_LayoutsReleasedOnce ==
    resource_call.op = "webgpu_create_geometry_pipeline" =>
        LET c == resource_call
        IN IF IsNull(c.device) \/ IsNull(c.vertex_shader) \/ IsNull(c.fragment_shader)
           THEN IsNull(c.pipeline) /\ c.calls = <<>> /\ c.returned
           ELSE c.returned =>
                /\ \A k \in 1..3 :
                       LET made == ObjectCalls(c.calls, "Create", PipelineObjects[k])
                           released == ObjectCalls(c.calls, "Release", PipelineObjects[k])
                       IN /\ Cardinality(released) = Cardinality(made)
                          /\ Cardinality(made) =
                                 (IF PipelineObjects[k] \in c.faults THEN 0 ELSE 1)
                          /\ \A i \in released :
                                 \E j \in 1..(i - 1) : c.calls[j][2] = "pipeline"
                /\ ObjectCalls(c.calls, "Release", "pipeline") = {}
                /\ IsNull(c.pipeline) <=> "pipeline" \in c.faults

\* The pipeline creation call failed, the three layouts had been created, and
\* the function returned NULL after releasing them.
C29_Witness ==
    /\ resource_call.op = "webgpu_create_geometry_pipeline"
    /\ resource_call.faults = {"pipeline"}
    /\ resource_call.returned
    /\ IsNull(resource_call.pipeline)
    /\ Len(resource_call.calls) = 7

\* ------------------------------------------------------------------ C30
\* The geometries webgpu_populate_geometry_buffers fills: those with a query
\* and an allocator.
Populated(geo) ==
    {g \in {Box, Rectangle} : ~IsNull(geo[g].query) /\ ~IsNull(geo[g].allocator)}

\* C30: when webgpu_populate_geometry_buffers has returned for a geometry with
\* a query and an allocator, transform_data and color_data have the same
\* length, the number of entities in the chunks of the query, instance_count is
\* that length, and a further call on the same world leaves the geometry as it
\* is (nothing of the pass before is kept).
C30_PopulateLengths ==
    [][ (\A g \in {Box, Rectangle} : geometry[g].component_id # "none") =>
            \A g \in Populated(geometry') :
                LET cache == geometry'[g]
                    total == CountEntities(CacheChunks(world', g))
                IN /\ Len(cache.transform_data) = total
                   /\ Len(cache.color_data) = total
                   /\ cache.instance_count = total
                   /\ webgpu_populate_geometry_buffers(cache, cache.query, world')
                          = cache ]_vars

\* A populated geometry holds two instances that came from two chunks.
C30_Witness ==
    \E g \in Populated(geometry) :
        /\ geometry[g].instance_count = 2
        /\ Len(geometry[g].transform_data) = 2
        /\ Len(geometry[g].color_data) = 2
        /\ Len(CacheChunks(world, g)) = 2

\* ------------------------------------------------------------------ C31
\* The collectors taken together: the render system, with one frame left to
\* render, and the geometry cache systems over the same world.
InitCollectors ==
    /\ world \in Worlds
    /\ geometry = [g \in {Box, Rectangle} |-> ZeroGeometry]
    /\ webgpu_query = HANDLE
    /\ renderer = [ReadyRenderer({}) EXCEPT !.frame_index = MaxFrames - 1]
    /\ extras = [t \in RendererTables |-> 0]
    /\ canvas = DemoCanvas
    /\ webgpu_error_occurred = FALSE
    /\ handshake = [adapter |-> "done", device |-> "done"]
    /\ destroyed = FALSE
    /\ candidates = [t \in CanvasTables |-> 0]
    /\ init_system = InitSystemRegistered
    /\ frame = NoFrame
    /\ resource_call = NoCall
    /\ components = ComponentValues(world)
    /\ history = [NoHistory EXCEPT !.initialised = TRUE,
                                   !.error_callback_installed = TRUE]

NextCollectors ==
    \/ webgpu_render_system(MainTable)
    \/ \E box_query_ok \in BOOLEAN, rectangle_query_ok \in BOOLEAN :
          webgpu_geometry_import(box_query_ok, rectangle_query_ok)
    \/ webgpu_populate_geometry_system

SpecCollectors == InitCollectors /\ [][NextCollectors]_vars

\* C31: whatever the gather and webgpu_populate_geometry_buffers have done,
\* every transform, colour and shape-dimension component of every entity has
\* the value it had before: both write only to the batch arrays and to the
\* vectors of the cache, the scaling included.
C31_ComponentsUntouched == components = ComponentValues(world)

\* A frame has gathered a batch and a geometry of the cache has been filled
\* (and its transforms scaled) from the same world.
C31_Witness ==
    /\ frame.ran /\ frame.gathered /\ Len(frame.batches) >= 1
    /\ \E g \in {Box, Rectangle} :
           /\ geometry[g].instance_count >= 1
           /\ geometry[g].transform_data[1] # TransformOf(geometry[g].order[1])
    /\ components = ComponentValues(world)

\* ------------------------------------------------------------------ C32
\* The sizes the claim names: 3 matrices of 64 bytes, and 40 bytes.
ClaimedUniformSize(which) ==
    IF which = "camera" THEN CameraUniformBytes ELSE LightUniformBytes

\* C32: for the camera uniform (192 bytes) and for the light uniform (40
\* bytes), the size of the buffer created, the size of the bind-group entry,
\* the minimum binding size of the layouts (those of the pipeline and those of
\* the device callback) and the number of bytes of every per-frame upload are
\* the same, so no upload reaches past the end of its buffer.
C32_UniformSizesAgree ==
    LET c == resource_call
    IN /\ \A which \in UniformKinds :
              CallbackMinBindingSize(which) = ClaimedUniformSize(which)
       /\ c.op = "webgpu_create_uniform_buffer" =>
              \A k \in 1..Len(c.calls) :
                  c.calls[k][1] = "DeviceCreateBuffer" =>
                      c.calls[k][2] = ClaimedUniformSize(c.which)
       /\ c.op = "webgpu_create_bind_group" =>
              c.calls[1][3] = ClaimedUniformSize(c.which)
       /\ c.op = "webgpu_create_geometry_pipeline" =>
              \A which \in UniformKinds :
                  c.min_binding_size[which] = ClaimedUniformSize(which)
       /\ c.op = "update_uniforms" =>
              \A k \in 1..Len(c.calls) :
                  /\ c.calls[k][2] = c.which
                  /\ c.calls[k][3] = ClaimedUniformSize(c.which)
                  /\ c.calls[k][3] <= UniformBufferSize(c.which)

\* The light uniform has been uploaded: one queue write of 40 bytes.
C32_Witness ==
    /\ resource_call.op = "update_uniforms"
    /\ resource_call.which = "light"
    /\ resource_call.calls = << <<"QueueWriteBuffer", "light", 40>> >>

\* ------------------------------------------------------------------ C33
\* The platform delivers the completion of every request in flight: each of
\* the two callbacks, once its request is pending, is eventually called.
SpecLive ==
    /\ Spec
    /\ WF_vars(\E success \in BOOLEAN : webgpu_adapter_callback(success))
    /\ WF_vars(\E success \in BOOLEAN : webgpu_device_callback(success))

\* Device and queue are stored and the error callback is installed.
DeviceReadyState ==
    /\ ~IsNull(renderer.device)
    /\ ~IsNull(renderer.queue)
    /\ history.error_callback_installed

\* The handshake cannot complete with success any more: a request failed, or
\* the renderer was destroyed with a request in flight.
HandshakeOver == destroyed \/ "failed" \in {handshake.adapter, handshake.device}

\* An invocation of the frame pipeline before the device is there returns at
\* once: no GPU call, nothing changed.
TickBeforeReadyIsNoOp ==
    (frame'.ran /\ frame'.device_null) =>
        /\ frame'.calls = <<>> /\ frame'.unchanged
        /\ frame'.path \in {"no_device", "multiple"}

\* C33: once the adapter has been requested, unless a request fails (or the
\* renderer is destroyed first) the renderer reaches the device-ready state;
\* an invocation of the frame pipeline before that makes no GPU call and
\* returns; and every invocation on the ready renderer with the latch clear
\* whose surface texture is acquired and whose texture view is created submits
\* exactly one command buffer.
C33_HandshakeReachesReady ==
    /\ (handshake.adapter = "pending") ~> (DeviceReadyState \/ HandshakeOver)
    /\ (handshake.device = "pending") ~> (DeviceReadyState \/ HandshakeOver)
    /\ [][ /\ TickBeforeReadyIsNoOp
           /\ (frame'.ran /\ DeviceReadyState /\ ~frame'.latched
               /\ frame'.texture /\ frame'.view) =>
                  Len(CallsNamed(frame'.calls, "QueueSubmit")) = 1 ]_vars

\* The renderer became ready through both callbacks, after a tick that found
\* no device, and has submitted a frame since.
C33_Witness ==
    /\ DeviceReadyState
    /\ handshake = [adapter |-> "done", device |-> "done"]
    /\ frame.ran /\ frame.texture /\ frame.view
    /\ Len(CallsNamed(frame.calls, "QueueSubmit")) = 1

\* C33 as stated: an available surface texture and a clear latch are the only
\* conditions on the tick.
C33_AsStated ==
    /\ (handshake.adapter = "pending") ~> (DeviceReadyState \/ HandshakeOver)
    /\ (handshake.device = "pending") ~> (DeviceReadyState \/ HandshakeOver)
    /\ [][ /\ TickBeforeReadyIsNoOp
           /\ (frame'.ran /\ DeviceReadyState /\ ~frame'.latched
               /\ frame'.texture) =>
                  Len(CallsNamed(frame'.calls, "QueueSubmit")) = 1 ]_vars

\* ------------------------------------------------------------------ C34
\* The entities of a sequence of chunks, in iteration order.
RECURSIVE ChunkEntities(_)
ChunkEntities(chunks) ==
    IF chunks = <<>> THEN <<>>
    ELSE Head(chunks) \o ChunkEntities(Tail(chunks))

\* The colour of entity e as the EcsRgb term binds it: its own value, the
\* inherited value, or none (white in the batch).
EntityColor(w, e) ==
    IF w[e].color = "own" THEN OwnColor(e)
    ELSE IF w[e].color = "shared" THEN SharedColor
    ELSE White

\* C34: every batch a gather builds has arrays of exactly instance_count
\* elements, the copy pass fills slot k with the k-th entity of the query in
\* iteration order (the same entities the count pass counted), and
\* transforms[k] and colors[k] are the transform and the colour (white when it
\* has none) of that entity.
C34_CopyPassExact ==
    frame.gathered =>
        \A n \in 1..Len(frame.batches) :
            LET b == frame.batches[n]
                expected == ChunkEntities(QueryChunks(world, b.geometry_type))
            IN /\ b.instance_count = Len(expected)
               /\ Len(b.transforms) = b.instance_count
               /\ Len(b.colors) = b.instance_count
               /\ b.order = expected
               /\ \A k \in 1..b.instance_count :
                      /\ b.transforms[k] = TransformOf(expected[k])
                      /\ b.colors[k] = EntityColor(world, expected[k])

\* ------------------------------------------------------------------ C35
\* C35: a frame that issues a draw call (always with the default pipeline,
\* which has a depth-stencil state) has begun its render pass with a depth
\* attachment, i.e. with renderer.depth_texture_view set.
C35_DrawsHaveDepthAttachment ==
    (frame.ran /\ Len(CallsNamed(frame.calls, "DrawIndexed")) > 0) =>
        /\ <<"CommandEncoderBeginRenderPass", TRUE>>
               \in {frame.calls[k] : k \in 1..Len(frame.calls)}
        /\ ~IsNull(renderer.depth_texture_view)

\* ------------------------------------------------------------------ C36
\* C36: in a batch built by the gather, every entity of a chunk whose colour
\* term is shared has the one shared colour in the colour array, and the
\* gather reads no element past the first of a shared colour field (no entity
\* is a later row of a chunk with a shared colour term).
C36_SharedColorInGather ==
    frame.gathered =>
        /\ \A n \in 1..Len(frame.batches) :
               LET b == frame.batches[n]
               IN \A k \in 1..Len(b.order) :
                      world[b.order[k]].color = "shared" =>
                          b.colors[k] = SharedColor
        /\ \A n \in 1..Len(frame.batches) :
               \A c \in 1..Len(QueryChunks(world, frame.batches[n].geometry_type)) :
                   LET chunk == QueryChunks(world, frame.batches[n].geometry_type)[c]
                   IN ~ecs_field_is_self(world, chunk) /\ ~FieldIsNull(world, chunk)
                          => Len(chunk) <= Len(ColorField(world, chunk))

\* ------------------------------------------------------------------ C37
\* C37: create_geometry_pipeline (render_system.c) has released, when it
\* returns, every shader module it created, exactly once, whatever it
\* returns.
C37_WrapperReleasesModules ==
    resource_call.op = "create_geometry_pipeline" =>
        \A stage \in {"vertex", "fragment"} :
            ~IsNull(resource_call.modules[stage]) =>
                Len(SelectSeq(resource_call.calls,
                        LAMBDA c : c = <<"ShaderModuleRelease", stage>>)) = 1

\* ------------------------------------------------------------------ C38
\* The sizes of the buffers of the given kind a frame created for a shape.
CreatedSizes(calls, geometry_type, kind) ==
    {calls[k][3] : k \in {n \in 1..Len(calls) :
                            /\ calls[n][1] = "DeviceCreateBuffer"
                            /\ calls[n][2] = <<geometry_type, kind>>}}

\* C38: every box index is below 24 and every rectangle index below 4, each
\* index array has a multiple of three elements, and every indexed draw of a
\* frame draws exactly the index array of its shape, all of it inside the
\* index buffer and every vertex it names inside the vertex buffer the frame
\* created for that shape.
C38_IndicesInsideVertexBuffer ==
    /\ \A k \in 1..Len(box_indices) : box_indices[k] \in 0..(box_vertex_count - 1)
    /\ \A k \in 1..Len(rectangle_indices) :
           rectangle_indices[k] \in 0..(rectangle_vertex_count - 1)
    /\ Len(box_indices) % 3 = 0 /\ Len(rectangle_indices) % 3 = 0
    /\ frame.ran =>
           \A d \in 1..Len(frame.calls) :
               frame.calls[d][1] = "DrawIndexed" =>
                   LET geometry_type == frame.calls[d][2]
                       index_count == frame.calls[d][3]
                       indices == IndexArray(geometry_type)
                   IN /\ index_count = Len(indices)
                      /\ \A size \in CreatedSizes(frame.calls, geometry_type, "index") :
                             index_count * BytesPerIndex <= size
                      /\ \A size \in CreatedSizes(frame.calls, geometry_type, "vertex") :
                             \A k \in 1..index_count :
                                 (indices[k] + 1) * FloatsPerVertex * BytesPerFloat
                                     <= size
                      /\ CreatedSizes(frame.calls, geometry_type, "vertex") # {}

\* A frame that drew boxes and rectangles from buffers it created.
C38_Witness ==
    /\ frame.ran
    /\ \A geometry_type \in {"EcsBox", "EcsRectangle"} :
           /\ \E d \in 1..Len(frame.calls) :
                  /\ frame.calls[d][1] = "DrawIndexed"
                  /\ frame.calls[d][2] = geometry_type
           /\ CreatedSizes(frame.calls, geometry_type, "vertex") # {}
           /\ CreatedSizes(frame.calls, geometry_type, "index") # {}

====
